---- MODULE Spec2Model ----
(***************************************************************************)
(* A model of PreJsPy (src/src/py/PreJsPy.py): a configurable expression   *)
(* parser.  Source text is a sequence of one-character strings, the cursor *)
(* `index` is 0-based as in the source, and every gobble* method is an     *)
(* operator from (self, index) to the new index plus a node or an          *)
(* exception.                                                              *)
(***************************************************************************)
EXTENDS Integers, Sequences, FiniteSets, TLC

VARIABLES config, unaryOperatorLength, binaryOperatorLength,
          index, length, expr,
          result, returned, arg, nconfig, calls

vars == <<config, unaryOperatorLength, binaryOperatorLength,
          index, length, expr, result, returned, arg, nconfig, calls>>

(***************************************************************************)
(* Characters                                                              *)
(***************************************************************************)
CHAR_PERIOD == "."
CHAR_COMMA == ","
CHAR_SINGLE_QUOTE == "'"
CHAR_DOUBLE_QUOTE == "\""
CHAR_OPEN_PARENTHESES == "("
CHAR_CLOSE_PARENTHESES == ")"
CHAR_OPEN_BRACKET == "["
CHAR_CLOSE_BRACKET == "]"
CHAR_QUESTIONMARK == "?"
CHAR_SEMICOLON == ";"
CHAR_COLON == ":"
CHAR_SPACE == " "
CHAR_TAB == "\t"
CHAR_BACKSLASH == "\\"

\* control characters an escape code decodes to, and one non-ASCII character
CHAR_LF == "<LF>"
CHAR_CR == "<CR>"
CHAR_BS == "<BS>"
CHAR_FF == "<FF>"
CHAR_VT == "<VT>"
NonAscii == {"<U+00E9>"}

DecimalDigits == {"0", "1", "2", "3", "4", "5", "6", "7", "8", "9"}
UpperCase == {"A", "B", "C", "D", "E", "F", "G", "H", "I", "J", "K", "L", "M",
              "N", "O", "P", "Q", "R", "S", "T", "U", "V", "W", "X", "Y", "Z"}
LowerCase == {"a", "b", "c", "d", "e", "f", "g", "h", "i", "j", "k", "l", "m",
              "n", "o", "p", "q", "r", "s", "t", "u", "v", "w", "x", "y", "z"}

isDecimalDigit(ch) == ch \in DecimalDigits

isIdentifierStart(ch) ==
    \/ ch = "$"
    \/ ch = "_"
    \/ ch \in UpperCase
    \/ ch \in LowerCase
    \/ ch \in NonAscii

isIdentifierPart(ch) ==
    \/ ch = "$"
    \/ ch = "_"
    \/ ch \in UpperCase
    \/ ch \in LowerCase
    \/ ch \in DecimalDigits
    \/ ch \in NonAscii

(***************************************************************************)
(* Sequences as Python strings and lists                                   *)
(***************************************************************************)
Min(a, b) == IF a < b THEN a ELSE b
Max(a, b) == IF a < b THEN b ELSE a

\* the Python slice text[a:b], 0 <= a
Slice(text, a, b) == SubSeq(text, a + 1, Min(b, Len(text)))

RECURSIVE MaxLenOf(_)
MaxLenOf(S) ==
    IF S = {} THEN 0
    ELSE LET x == CHOOSE y \in S : TRUE
         IN Max(Len(x), MaxLenOf(S \ {x}))

\* the number of keys in place of the length of the longest
getKeyCount(o) == Cardinality(DOMAIN o)

getMaxKeyLen(o) == IF Cardinality(DOMAIN o) = 0 THEN 0 ELSE MaxLenOf(DOMAIN o)

getMaxMemLen(ary) ==
    IF Len(ary) = 0 THEN 0 ELSE MaxLenOf({ary[k] : k \in 1..Len(ary)})

InList(x, ary) == \E k \in 1..Len(ary) : ary[k] = x

(***************************************************************************)
(* AST nodes                                                               *)
(***************************************************************************)
None == [type |-> "None"]

Compound(body) == [type |-> "Compound", body |-> body]
Identifier(name) == [type |-> "Identifier", name |-> name]
Member(computed, object, property) ==
    [type |-> "MemberExpression", computed |-> computed,
     object |-> object, property |-> property]
Literal(value, raw) == [type |-> "Literal", value |-> value, raw |-> raw]
StringLiteral(value, raw) ==
    [type |-> "Literal", kind |-> "string", value |-> value, raw |-> raw]
NumericLiteral(value, raw) ==
    [type |-> "Literal", kind |-> "number", value |-> value, raw |-> raw]
Call(arguments, callee) ==
    [type |-> "CallExpression", arguments |-> arguments, callee |-> callee]
Unary(operator, argument) ==
    [type |-> "UnaryExpression", operator |-> operator, argument |-> argument]
Binary(operator, left, right) ==
    [type |-> "BinaryExpression", operator |-> operator,
     left |-> left, right |-> right]
Condition(test, consequent, alternate) ==
    [type |-> "ConditionalExpression", test |-> test,
     consequent |-> consequent, alternate |-> alternate]
Ary(elements) == [type |-> "ArrayExpression", elements |-> elements]

(***************************************************************************)
(* Exceptions and the outcome of a gobble* method                          *)
(***************************************************************************)
NoException == [kind |-> "none", error |-> "", detail |-> <<>>,
                expr |-> <<>>, index |-> 0]

\* ParsingError(error, expr, index); the message is `error` followed by the
\* json.dumps of `detail` when there is one
ParsingError(error, detail, text, at) ==
    [kind |-> "ParsingError", error |-> error, detail |-> detail,
     expr |-> text, index |-> at]

\* the ValueError float() raises on a text that is no number
ValueError(text) ==
    [kind |-> "ValueError", error |-> "could not convert string to float",
     detail |-> text, expr |-> <<>>, index |-> 0]

Return(i, node) == [i |-> i, node |-> node, exc |-> NoException]
Raise(i, exc) == [i |-> i, node |-> None, exc |-> exc]
\* __throw_error reading the text of the cursor as Parse leaves it on return
throw_errorCleared(self, i, error, detail) ==
    Raise(i, ParsingError(error, detail, <<>>, i))

throw_error(self, i, error, detail) ==
    Raise(i, ParsingError(error, detail, self.expr, i))
Raised(r) == r.exc.kind # "none"

(***************************************************************************)
(* Configuration                                                           *)
(***************************************************************************)
\* a spelling or a name is the sequence of its characters
true_ == <<"t", "r", "u", "e">>
false_ == <<"f", "a", "l", "s", "e">>
null_ == <<"n", "u", "l", "l">>

\* the values of named literals
PyTrue == [t |-> "bool", v |-> <<"True">>]
PyFalse == [t |-> "bool", v |-> <<"False">>]
PyNone == [t |-> "null", v |-> <<>>]

GetDefaultConfig ==
    [Operators |->
        [Literals |-> (true_ :> PyTrue) @@ (false_ :> PyFalse) @@ (null_ :> PyNone),
         Unary |-> << <<"-">>, <<"!">>, <<"~">>, <<"+">> >>,
         Binary |->
            (<<"|", "|">> :> 1) @@ (<<"&", "&">> :> 2) @@ (<<"|">> :> 3) @@
            (<<"^">> :> 4) @@ (<<"&">> :> 5) @@
            (<<"=", "=">> :> 6) @@ (<<"!", "=">> :> 6) @@
            (<<"=", "=", "=">> :> 6) @@ (<<"!", "=", "=">> :> 6) @@
            (<<"<">> :> 7) @@ (<<">">> :> 7) @@
            (<<"<", "=">> :> 7) @@ (<<">", "=">> :> 7) @@
            (<<"<", "<">> :> 8) @@ (<<">", ">">> :> 8) @@ (<<">", ">", ">">> :> 8) @@
            (<<"+">> :> 9) @@ (<<"-">> :> 9) @@
            (<<"*">> :> 10) @@ (<<"/">> :> 10) @@ (<<"%">> :> 10)],
     Features |->
        [Compound |-> TRUE,
         Conditional |-> TRUE,
         Identifiers |-> TRUE,
         Calls |-> TRUE,
         Members |-> [Static |-> TRUE, Computed |-> TRUE],
         Literals |-> [Numeric |-> TRUE, NumericSeparator |-> <<>>,
                       String |-> TRUE, Array |-> TRUE]]]

\* what a gobble* method reads of the instance besides the cursor offset
Self(cfg, ulen, blen, text, len) ==
    [config |-> cfg, unaryOperatorLength |-> ulen, binaryOperatorLength |-> blen,
     expr |-> text, length |-> len]

binaryPrecedence(self, op_val) ==
    IF op_val \notin DOMAIN self.config.Operators.Binary
    THEN 0
    ELSE self.config.Operators.Binary[op_val]

(***************************************************************************)
(* Scanning primitives                                                     *)
(***************************************************************************)
\* __char: the character at the cursor, "" at or after the end
char(self, i) == IF i >= self.length THEN "" ELSE self.expr[i + 1]

RECURSIVE gobbleSpaces(_, _)
gobbleSpaces(self, i) ==
    IF char(self, i) = CHAR_SPACE \/ char(self, i) = CHAR_TAB
    THEN gobbleSpaces(self, i + 1)
    ELSE i

\* the scan that grows the window instead of shrinking it: the shortest
\* known prefix
ShortestMatch(to_check, tc_len, known) ==
    LET hits == {k \in 1..tc_len : SubSeq(to_check, 1, k) \in known}
    IN IF hits = {} THEN <<>>
       ELSE SubSeq(to_check, 1, CHOOSE k \in hits : \A j \in hits : k <= j)

\* the shrinking loop of the longest-match lookup: the longest prefix of
\* to_check that `known` accepts, <<>> when there is none
RECURSIVE LongestMatch(_, _, _)
LongestMatch(to_check, tc_len, known) ==
    IF tc_len > 0
    THEN IF to_check \in known
         THEN to_check
         ELSE LongestMatch(SubSeq(to_check, 1, tc_len - 1), tc_len - 1, known)
    ELSE <<>>

gobbleBinaryOp(self, i) ==
    LET start == gobbleSpaces(self, i)
        to_check == Slice(self.expr, start, start + self.binaryOperatorLength)
        found == LongestMatch(to_check, Len(to_check),
                              DOMAIN self.config.Operators.Binary)
    IN [i |-> start + Len(found), value |-> found, found |-> found # <<>>]

(***************************************************************************)
(* float(): the value of a number text, as mantissa and decimal exponent   *)
(* without trailing zeros in the mantissa (doubles are exact on the short  *)
(* texts modelled)                                                         *)
(***************************************************************************)
DigitValue ==
    ("0" :> 0) @@ ("1" :> 1) @@ ("2" :> 2) @@ ("3" :> 3) @@ ("4" :> 4) @@
    ("5" :> 5) @@ ("6" :> 6) @@ ("7" :> 7) @@ ("8" :> 8) @@ ("9" :> 9)

RECURSIVE DigitsToNat(_)
DigitsToNat(ds) ==
    IF ds = <<>> THEN 0
    ELSE DigitsToNat(SubSeq(ds, 1, Len(ds) - 1)) * 10 + DigitValue[ds[Len(ds)]]

RECURSIVE Normalise(_, _)
Normalise(m, e) ==
    IF m = 0 THEN [t |-> "number", v |-> <<0, 0>>]
    ELSE IF m % 10 = 0 THEN Normalise(m \div 10, e + 1)
    ELSE [t |-> "number", v |-> <<m, e>>]

\* the first position of text holding a character of S, 0 when none does
FirstOf(text, S) ==
    IF \E k \in 1..Len(text) : text[k] \in S
    THEN CHOOSE k \in 1..Len(text) :
            text[k] \in S /\ \A j \in 1..(k - 1) : text[j] \notin S
    ELSE 0

AllDigits(text) == \A k \in 1..Len(text) : text[k] \in DecimalDigits

FloatParts(text) ==
    LET ePos == FirstOf(text, {"e", "E"})
        mantissa == IF ePos = 0 THEN text ELSE SubSeq(text, 1, ePos - 1)
        expo == IF ePos = 0 THEN <<>> ELSE SubSeq(text, ePos + 1, Len(text))
        signed == expo # <<>> /\ expo[1] \in {"+", "-"}
        expDigits == IF signed THEN SubSeq(expo, 2, Len(expo)) ELSE expo
        dot == FirstOf(mantissa, {CHAR_PERIOD})
        whole == IF dot = 0 THEN mantissa ELSE SubSeq(mantissa, 1, dot - 1)
        frac == IF dot = 0 THEN <<>> ELSE SubSeq(mantissa, dot + 1, Len(mantissa))
    IN [whole |-> whole, frac |-> frac, hasExp |-> ePos # 0,
        negExp |-> signed /\ expo[1] = "-", expDigits |-> expDigits]

\* whether float returns for a text with the parts p; it raises ValueError
\* otherwise
FloatValid(p) ==
    /\ AllDigits(p.whole) /\ AllDigits(p.frac) /\ AllDigits(p.expDigits)
    /\ Len(p.whole) + Len(p.frac) > 0
    /\ p.hasExp => Len(p.expDigits) > 0

\* the exponent of ten float applies to the digits of the mantissa
FloatExponent(p, e) == (IF p.negExp THEN 0 - e ELSE e) - Len(p.frac)

\* the value float returns for a text with the parts p
FloatValue(p) ==
    Normalise(DigitsToNat(p.whole \o p.frac),
              FloatExponent(p, DigitsToNat(p.expDigits)))

(***************************************************************************)
(* Literals and identifiers                                                *)
(***************************************************************************)
\* a character as a Python string: "" is the empty text
Text(ch) == IF ch = "" THEN <<>> ELSE <<ch>>

\* fast path of __gobbleDecimal: the end of the digit run starting at i
RECURSIVE DecimalRun(_, _)
DecimalRun(self, i) ==
    IF isDecimalDigit(char(self, i)) THEN DecimalRun(self, i + 1) ELSE i

\* slow path of __gobbleDecimal: digits are collected, separators skipped
RECURSIVE DecimalSeparated(_, _, _, _)
DecimalSeparated(self, i, separator, number) ==
    LET digit == char(self, i)
    IN IF isDecimalDigit(digit)
       THEN DecimalSeparated(self, i + 1, separator, Append(number, digit))
       ELSE IF Text(digit) # separator
       THEN [i |-> i, number |-> number]
       ELSE DecimalSeparated(self, i + 1, separator, number)

DecimalSlice(self, i, end) == [i |-> end, number |-> Slice(self.expr, i, end)]

gobbleDecimal(self, i) ==
    LET separator == self.config.Features.Literals.NumericSeparator
    IN IF separator = <<>>
       THEN DecimalSlice(self, i, DecimalRun(self, i))
       ELSE DecimalSeparated(self, i, separator, <<>>)

\* float(number), p being the parts of number, and the Literal node built
\* from it
NumericNode(self, start, i, number, p) ==
    IF ~FloatValid(p)
    THEN Raise(i, ValueError(number))
    ELSE Return(i, NumericLiteral(
            FloatValue(p),
            IF self.config.Features.Literals.NumericSeparator # <<>>
            THEN Slice(self.expr, start, i)
            ELSE number))

NumericResult(self, start, i, number) ==
    NumericNode(self, start, i, number, FloatParts(number))

\* the number returned whatever character follows it
NumericFollowAny(self, start, i, number, ch) ==
    NumericResult(self, start, i, number)

\* the test of the character that follows the number
NumericFollow(self, start, i, number, ch) ==
    IF isIdentifierStart(ch)
    THEN throw_error(self, i,
                     "Variable names cannot start with a number like ",
                     Append(number, ch))
    ELSE NumericResult(self, start, i, number)

\* the digits of the exponent, number ending with the e and the sign
NumericExponentDigits(self, start, number, exponent) ==
    IF exponent.number = <<>>
    THEN throw_error(self, exponent.i, "Expected exponent after ",
                     number \o Text(char(self, exponent.i)))
    ELSE NumericFollow(self, start, exponent.i, number \o exponent.number,
                       char(self, exponent.i))

\* the sign of the exponent, the cursor being on the e
NumericExponentSign(self, start, i, number, hasSign) ==
    NumericExponentDigits(
        self, start,
        IF hasSign THEN number \o <<char(self, i), char(self, i + 1)>>
        ELSE Append(number, char(self, i)),
        gobbleDecimal(self, IF hasSign THEN i + 2 ELSE i + 1))

\* the exponent part of the number
NumericExponent(self, start, i, number, ch) ==
    IF ch = "e" \/ ch = "E"
    THEN NumericExponentSign(
            self, start, i, number,
            char(self, i + 1) = "+" \/ char(self, i + 1) = "-")
    ELSE NumericFollow(self, start, i, number, ch)

\* the part of the number after the decimal point
NumericFraction(self, start, whole, frac) ==
    NumericExponent(self, start, frac.i,
                    whole.number \o <<CHAR_PERIOD>> \o frac.number,
                    char(self, frac.i))

\* the part of the number before the decimal point
NumericWhole(self, start, whole) ==
    IF char(self, whole.i) = CHAR_PERIOD
    THEN NumericFraction(self, start, whole, gobbleDecimal(self, whole.i + 1))
    ELSE NumericExponent(self, start, whole.i, whole.number,
                         char(self, whole.i))

gobbleNumericLiteral(self, start) ==
    NumericWhole(self, start, gobbleDecimal(self, start))

\* the text an escape code \ch stands for
Unescape(ch) ==
    CASE ch = "n" -> <<CHAR_LF>>
      [] ch = "r" -> <<CHAR_CR>>
      [] ch = "t" -> <<CHAR_TAB>>
      [] ch = "b" -> <<CHAR_BS>>
      [] ch = "f" -> <<CHAR_FF>>
      [] ch = "v" -> <<CHAR_VT>>
      [] ch = CHAR_BACKSLASH -> <<CHAR_BACKSLASH>>
      [] OTHER -> Text(ch)

\* the scanning loop of __gobbleStringLiteral, from the offset after the quote
RECURSIVE StringBody(_, _, _, _)
StringBody(self, i, quote, s) ==
    IF i < self.length
    THEN LET ch == char(self, i)
         IN IF ch = quote
            THEN [i |-> i + 1, s |-> s, closed |-> TRUE]
            ELSE IF ch = CHAR_BACKSLASH
            THEN StringBody(self, i + 2, quote, s \o Unescape(char(self, i + 1)))
            ELSE StringBody(self, i + 1, quote, Append(s, ch))
    ELSE [i |-> i, s |-> s, closed |-> FALSE]

gobbleStringLiteral(self, start) ==
    LET quote == char(self, start)
        body == StringBody(self, start + 1, quote, <<>>)
    IN IF ~body.closed
       THEN throw_error(self, body.i, "Unclosed quote after ", body.s)
       ELSE Return(body.i,
                   StringLiteral([t |-> "string", v |-> body.s],
                                 Slice(self.expr, start, body.i)))

\* the end of the identifier whose first character is at i - 1
RECURSIVE IdentifierEnd(_, _)
IdentifierEnd(self, i) ==
    IF i < self.length /\ isIdentifierPart(char(self, i))
    THEN IdentifierEnd(self, i + 1)
    ELSE i

\* __gobbleIdentifier with the test of the Identifiers feature ahead of the
\* lookup in the table of literal names
gobbleIdentifierFeatureFirst(self, start) ==
    LET ch == char(self, start)
        end == IdentifierEnd(self, start + 1)
        identifier == Slice(self.expr, start, end)
    IN IF ch = ""
       THEN throw_error(self, start, "Expected literal", <<>>)
       ELSE IF ~isIdentifierStart(ch)
       THEN throw_error(self, start, "Unexpected ", <<ch>>)
       ELSE IF ~self.config.Features.Identifiers
       THEN throw_error(self, end, "Unknown literal ", identifier)
       ELSE IF identifier \in DOMAIN self.config.Operators.Literals
       THEN Return(end, Literal(self.config.Operators.Literals[identifier],
                                identifier))
       ELSE Return(end, Identifier(identifier))

gobbleIdentifier(self, start) ==
    LET ch == char(self, start)
        end == IdentifierEnd(self, start + 1)
        identifier == Slice(self.expr, start, end)
    IN IF ch = ""
       THEN throw_error(self, start, "Expected literal", <<>>)
       ELSE IF ~isIdentifierStart(ch)
       THEN throw_error(self, start, "Unexpected ", <<ch>>)
       ELSE IF identifier \in DOMAIN self.config.Operators.Literals
       THEN Return(end, Literal(self.config.Operators.Literals[identifier],
                                identifier))
       ELSE IF ~self.config.Features.Identifiers
       THEN throw_error(self, end, "Unknown literal ", identifier)
       ELSE Return(end, Identifier(identifier))

(***************************************************************************)
(* Binary expressions: the two stacks                                      *)
(***************************************************************************)
\* the comparison of the reduce loop turned around
ShouldReduceInverted(precedence, pending) == precedence > pending

\* a reduce loop that never reduces
ShouldReduceNever(precedence, pending) == FALSE

\* the test of the reduce loop: the incoming operator's precedence against
\* the precedence of the operator on top of the stack
ShouldReduce(precedence, pending) == precedence < pending

\* Reduce: make a binary expression from the three topmost entries
RECURSIVE Reduce(_, _, _)
Reduce(exprs, ops, precedence) ==
    IF Len(ops) > 0 /\ ShouldReduce(precedence, ops[Len(ops)].precedence)
    THEN LET right == exprs[Len(exprs)]
             left == exprs[Len(exprs) - 1]
             op == ops[Len(ops)]
         IN Reduce(Append(SubSeq(exprs, 1, Len(exprs) - 2),
                          Binary(op.value, left, right)),
                   SubSeq(ops, 1, Len(ops) - 1),
                   precedence)
    ELSE [exprs |-> exprs, ops |-> ops]

\* the final loop of __gobbleBinaryExpression; i and j are 0-based
RECURSIVE FoldStacks(_, _, _, _, _)
FoldStacks(exprs, ops, i, j, node) ==
    IF i > 0 /\ j >= 0
    THEN FoldStacks(exprs, ops, i - 1, j - 1,
                    Binary(ops[j + 1].value, exprs[i], node))
    ELSE node

(***************************************************************************)
(* The productions                                                         *)
(***************************************************************************)
\* a production calls another production through `gobble`, which closes the
\* recursion of the grammar: gobble(method, self, i, x) calls self.method
\* with the arguments x and the cursor at i
RECURSIVE gobble(_, _, _, _)

\* the part after the `?` with an alternate that is read as a binary
\* expression, so that no conditional nests in it
TernaryFlat(self, test, i) ==
    LET consequent == gobble("gobbleExpression", self, i, <<>>)
        colon == gobbleSpaces(self, consequent.i)
        alternate == gobble("gobbleBinaryExpression", self, colon + 1, <<>>)
    IN IF Raised(consequent) THEN consequent
       ELSE IF consequent.node = None
       THEN throw_error(self, consequent.i, "Expected expression", <<>>)
       ELSE IF char(self, colon) # CHAR_COLON
       THEN throw_error(self, colon, "Expected ", <<CHAR_COLON>>)
       ELSE IF Raised(alternate) THEN alternate
       ELSE IF alternate.node = None
       THEN throw_error(self, alternate.i, "Expected expression", <<>>)
       ELSE Return(alternate.i,
                   Condition(test, consequent.node, alternate.node))

\* the part of __gobbleExpression after the `?`
Ternary(self, test, i) ==
    LET consequent == gobble("gobbleExpression", self, i, <<>>)
        colon == gobbleSpaces(self, consequent.i)
        alternate == gobble("gobbleExpression", self, colon + 1, <<>>)
    IN IF Raised(consequent) THEN consequent
       ELSE IF consequent.node = None
       THEN throw_error(self, consequent.i, "Expected expression", <<>>)
       ELSE IF char(self, colon) # CHAR_COLON
       THEN throw_error(self, colon, "Expected ", <<CHAR_COLON>>)
       ELSE IF Raised(alternate) THEN alternate
       ELSE IF alternate.node = None
       THEN throw_error(self, alternate.i, "Expected expression", <<>>)
       ELSE Return(alternate.i,
                   Condition(test, consequent.node, alternate.node))

gobbleExpression(self, i) ==
    IF ~self.config.Features.Conditional
    THEN gobble("gobbleBinaryExpression", self, i, <<>>)
    ELSE LET test == gobble("gobbleBinaryExpression", self, i, <<>>)
             after == gobbleSpaces(self, test.i)
         IN IF Raised(test) THEN test
            ELSE IF char(self, after) # CHAR_QUESTIONMARK \/ test.node = None
            THEN Return(after, test.node)
            ELSE Ternary(self, test.node, after + 1)

RECURSIVE BinaryLoop(_, _, _, _)

\* one pass of the `while True` loop of __gobbleBinaryExpression, op being
\* the outcome of __gobbleBinaryOp and precedence its precedence
BinaryStep(self, exprs, ops, op, precedence) ==
    LET reduced == Reduce(exprs, ops, precedence)
        node == gobble("gobbleToken", self, op.i, <<>>)
        stop == [i |-> op.i, exprs |-> exprs, ops |-> ops, exc |-> NoException]
    IN IF ~op.found THEN stop
       ELSE IF precedence = 0 THEN stop
       ELSE IF Raised(node)
       THEN [i |-> node.i, exprs |-> exprs, ops |-> ops, exc |-> node.exc]
       ELSE IF node.node = None
       THEN [i |-> node.i, exprs |-> exprs, ops |-> ops,
             exc |-> ParsingError("Expected expression after ", op.value,
                                  self.expr, node.i)]
       ELSE BinaryLoop(self, node.i,
                       Append(reduced.exprs, node.node),
                       Append(reduced.ops,
                              [value |-> op.value, precedence |-> precedence]))

BinaryOperator(self, exprs, ops, op) ==
    BinaryStep(self, exprs, ops, op, binaryPrecedence(self, op.value))

\* the `while True` loop of __gobbleBinaryExpression
BinaryLoop(self, i, exprs, ops) ==
    BinaryOperator(self, exprs, ops, gobbleBinaryOp(self, i))

\* the fold of the stacks the loop has left
BinaryResult(loop) ==
    IF loop.exc.kind # "none" THEN Raise(loop.i, loop.exc)
    ELSE Return(loop.i,
                FoldStacks(loop.exprs, loop.ops,
                           Len(loop.exprs) - 1, Len(loop.ops) - 1,
                           loop.exprs[Len(loop.exprs)]))

gobbleBinaryExpression(self, i) ==
    LET left == gobble("gobbleToken", self, i, <<>>)
    IN IF Raised(left) \/ left.node = None THEN left
       ELSE BinaryResult(BinaryLoop(self, left.i, <<left.node>>, <<>>))

\* the loop of __gobbleArguments; the outcome's node is the list of arguments
RECURSIVE ArgumentsLoop(_, _, _, _, _, _)
ArgumentsLoop(self, i, start, end, args, hadComma) ==
    LET at == gobbleSpaces(self, i)
        ch == char(self, at)
        wantsComma == Len(args) > 0
        node == gobble("gobbleExpression", self, at, <<>>)
    IN IF ~(i < self.length)
       THEN throw_error(self, i, "Unclosed ", <<start>>)
       ELSE IF ch = end THEN Return(at + 1, args)
       ELSE IF ch = CHAR_COMMA
       THEN IF hadComma
            THEN throw_error(self, at, "Duplicate ", <<CHAR_COMMA>>)
            ELSE ArgumentsLoop(self, at + 1, start, end, args, TRUE)
       ELSE IF wantsComma # hadComma
       THEN IF wantsComma
            THEN throw_error(self, at, "Expected ", <<CHAR_COMMA>>)
            ELSE throw_error(self, at, "Unexpected ", <<CHAR_COMMA>>)
       ELSE IF Raised(node) THEN node
       ELSE IF node.node = None \/ node.node.type = "Compound"
       THEN throw_error(self, node.i, "Expected ", <<CHAR_COMMA>>)
       ELSE ArgumentsLoop(self, node.i, start, end,
                          Append(args, node.node), FALSE)

gobbleArguments(self, i, start, end) ==
    ArgumentsLoop(self, i, start, end, <<>>, FALSE)

gobbleArray(self, i) ==
    LET elements == gobble("gobbleArguments", self, i + 1,
                           [start |-> CHAR_OPEN_BRACKET,
                            end |-> CHAR_CLOSE_BRACKET])
    IN IF Raised(elements) THEN elements
       ELSE Return(elements.i, Ary(elements.node))

gobbleGroup(self, i) ==
    LET node == gobble("gobbleExpression", self, i + 1, <<>>)
        close == gobbleSpaces(self, node.i)
    IN IF Raised(node) THEN node
       ELSE IF char(self, close) # CHAR_CLOSE_PARENTHESES
       THEN throw_error(self, close, "Unclosed ", <<CHAR_OPEN_PARENTHESES>>)
       ELSE Return(close + 1, node.node)

RECURSIVE VariableSuffixes(_, _, _)

\* the computed-member branch of the suffix loop, after the `[`
ComputedMember(self, i, object) ==
    LET prop == gobble("gobbleExpression", self, i, <<>>)
        close == gobbleSpaces(self, prop.i)
    IN IF Raised(prop) THEN prop
       ELSE IF prop.node = None
       THEN throw_error(self, prop.i, "Expected expression", <<>>)
       ELSE IF char(self, close) # CHAR_CLOSE_BRACKET
       THEN throw_error(self, close, "Unclosed ", <<CHAR_OPEN_BRACKET>>)
       ELSE VariableSuffixes(self, close + 1, Member(TRUE, object, prop.node))

\* the `while True` loop of __gobbleVariable
VariableSuffixes(self, i, node) ==
    LET at == gobbleSpaces(self, i)
        ch == char(self, at)
        property == gobbleIdentifier(self, gobbleSpaces(self, at + 1))
        arguments == gobble("gobbleArguments", self, at + 1,
                            [start |-> CHAR_OPEN_PARENTHESES,
                             end |-> CHAR_CLOSE_PARENTHESES])
    IN IF self.config.Features.Members.Static /\ ch = CHAR_PERIOD
       THEN IF Raised(property) THEN property
            ELSE VariableSuffixes(self, property.i,
                                  Member(FALSE, node, property.node))
       ELSE IF self.config.Features.Members.Computed /\ ch = CHAR_OPEN_BRACKET
       THEN ComputedMember(self, at + 1, node)
       ELSE IF self.config.Features.Calls /\ ch = CHAR_OPEN_PARENTHESES
       THEN IF Raised(arguments) THEN arguments
            ELSE VariableSuffixes(self, arguments.i,
                                  Call(arguments.node, node))
       ELSE Return(at, node)

gobbleVariable(self, i) ==
    LET node == IF char(self, i) = CHAR_OPEN_PARENTHESES
                THEN gobble("gobbleGroup", self, i, <<>>)
                ELSE gobbleIdentifier(self, i)
    IN IF Raised(node) \/ node.node = None THEN node
       ELSE VariableSuffixes(self, node.i, node.node)

\* the unary branch of __gobbleToken, the operator already matched
UnaryToken(self, i, operator) ==
    LET argument == gobble("gobbleToken", self, i, <<>>)
    IN IF Raised(argument) THEN argument
       ELSE IF argument.node = None
       THEN throw_error(self, argument.i,
                        "Expected argument for unary expression", <<>>)
       ELSE Return(argument.i, Unary(operator, argument.node))

gobbleToken(self, i) ==
    LET start == gobbleSpaces(self, i)
        ch == char(self, start)
        to_check == Slice(self.expr, start, start + self.unaryOperatorLength)
        unary == self.config.Operators.Unary
        operator == LongestMatch(to_check, Len(to_check),
                                 {unary[k] : k \in 1..Len(unary)})
    IN IF self.config.Features.Literals.Numeric
          /\ (isDecimalDigit(ch) \/ ch = CHAR_PERIOD)
       THEN gobbleNumericLiteral(self, start)
       ELSE IF self.config.Features.Literals.String
               /\ (ch = CHAR_SINGLE_QUOTE \/ ch = CHAR_DOUBLE_QUOTE)
       THEN gobbleStringLiteral(self, start)
       ELSE IF self.config.Features.Literals.Array /\ ch = CHAR_OPEN_BRACKET
       THEN gobble("gobbleArray", self, start, <<>>)
       ELSE IF operator # <<>>
       THEN UnaryToken(self, start + Len(operator), operator)
       ELSE IF isIdentifierStart(ch) \/ ch = CHAR_OPEN_PARENTHESES
       THEN gobble("gobbleVariable", self, start, <<>>)
       ELSE Return(start, None)

\* the scanning loop of __gobbleCompound: the top-level nodes found
RECURSIVE CompoundLoop(_, _, _)
CompoundLoop(self, i, nodes) ==
    LET ch == char(self, i)
        node == gobble("gobbleExpression", self, i, <<>>)
    IN IF ~(i < self.length)
       THEN [i |-> i, nodes |-> nodes, exc |-> NoException]
       ELSE IF ch = CHAR_SEMICOLON \/ ch = CHAR_COMMA
       THEN CompoundLoop(self, i + 1, nodes)
       ELSE IF Raised(node)
       THEN [i |-> node.i, nodes |-> nodes, exc |-> node.exc]
       ELSE IF node.node = None
       THEN [i |-> node.i, nodes |-> nodes, exc |-> NoException]
       ELSE CompoundLoop(self, node.i, Append(nodes, node.node))

\* __gobbleCompound without the return of a single expression as it is
CompoundAlways(self, i, nodes) ==
    IF i < self.length
    THEN throw_error(self, i, "Unexpected ", Text(char(self, i)))
    ELSE IF ~self.config.Features.Compound
    THEN throw_error(self, i, "Unexpected compound expression", <<>>)
    ELSE Return(i, Compound(nodes))

\* __gobbleCompound returning the first expression whenever there is one
CompoundFirst(self, i, nodes) ==
    IF i < self.length
    THEN throw_error(self, i, "Unexpected ", Text(char(self, i)))
    ELSE IF Len(nodes) >= 1
    THEN Return(i, nodes[1])
    ELSE IF ~self.config.Features.Compound
    THEN throw_error(self, i, "Unexpected compound expression", <<>>)
    ELSE Return(i, Compound(nodes))

\* __gobbleCompound returning a Compound node whether or not the production
\* is switched on
CompoundResultUnflagged(self, i, nodes) ==
    IF i < self.length
    THEN throw_error(self, i, "Unexpected ", Text(char(self, i)))
    ELSE IF Len(nodes) = 1
    THEN Return(i, nodes[1])
    ELSE Return(i, Compound(nodes))

\* what __gobbleCompound returns for the top-level nodes found
CompoundResult(self, i, nodes) ==
    IF i < self.length
    THEN throw_error(self, i, "Unexpected ", Text(char(self, i)))
    ELSE IF Len(nodes) = 1
    THEN Return(i, nodes[1])
    ELSE IF ~self.config.Features.Compound
    THEN throw_error(self, i, "Unexpected compound expression", <<>>)
    ELSE Return(i, Compound(nodes))

gobbleCompound(self, i) ==
    LET loop == CompoundLoop(self, i, <<>>)
    IN IF loop.exc.kind # "none"
       THEN Raise(loop.i, loop.exc)
       ELSE CompoundResult(self, loop.i, loop.nodes)

gobble(method, self, i, x) ==
    CASE method = "gobbleCompound" -> gobbleCompound(self, i)
      [] method = "gobbleExpression" -> gobbleExpression(self, i)
      [] method = "gobbleBinaryExpression" -> gobbleBinaryExpression(self, i)
      [] method = "gobbleToken" -> gobbleToken(self, i)
      [] method = "gobbleArguments" -> gobbleArguments(self, i, x.start, x.end)
      [] method = "gobbleVariable" -> gobbleVariable(self, i)
      [] method = "gobbleGroup" -> gobbleGroup(self, i)
      [] method = "gobbleArray" -> gobbleArray(self, i)

(***************************************************************************)
(* GetConfig and SetConfig                                                 *)
(***************************************************************************)
\* a dict or a list of the configuration that GetConfig and SetConfig copy
Groups == {"Operators.Literals", "Operators.Unary", "Operators.Binary",
           "Features", "Features.Members", "Features.Literals"}

\* GetConfig without the copies: the dicts and lists of the returned value are
\* the instance's own
GetConfigShared(cfg) == [value |-> cfg, shared |-> Groups]

\* GetConfig: a new dict holding a copy of every dict and list of the active
\* configuration; `shared` names the groups of the returned value that are the
\* very objects the instance holds
GetConfig(cfg) ==
    [value |->
        [Operators |->
            [Literals |-> cfg.Operators.Literals,
             Unary |-> cfg.Operators.Unary,
             Binary |-> cfg.Operators.Binary],
         Features |->
            [Compound |-> cfg.Features.Compound,
             Conditional |-> cfg.Features.Conditional,
             Identifiers |-> cfg.Features.Identifiers,
             Calls |-> cfg.Features.Calls,
             Members |-> cfg.Features.Members,
             Literals |-> cfg.Features.Literals]],
     shared |-> {}]

\* `k in d` for a dict d, guarded by `config is not None`
NoConfig == [type |-> "None"]
IsNone(d) == DOMAIN d = {"type"}
Has(d, k) == ~IsNone(d) /\ k \in DOMAIN d

\* a merge that loses the assignment of the supplied value
MergedStale(present, supplied, old) == old

\* the value SetConfig stores for one field: the supplied one when the
\* partial configuration has it, the old one otherwise
Merged(present, supplied, old) == IF present THEN supplied ELSE old

\* SetConfig(config): the active configuration and the derived lengths after
\* the merge
SetConfig(cfg, ulen, blen, partial) ==
    LET hasO == Has(partial, "Operators")
        hasF == Has(partial, "Features")
        hasM == hasF /\ Has(partial.Features, "Members")
        hasL == hasF /\ Has(partial.Features, "Literals")
        hasUnary == hasO /\ Has(partial.Operators, "Unary")
        hasBinary == hasO /\ Has(partial.Operators, "Binary")
        merged ==
            [Operators |->
                [Literals |-> Merged(hasO /\ Has(partial.Operators, "Literals"),
                                     partial.Operators.Literals,
                                     cfg.Operators.Literals),
                 Unary |-> Merged(hasUnary, partial.Operators.Unary,
                                  cfg.Operators.Unary),
                 Binary |-> Merged(hasBinary, partial.Operators.Binary,
                                   cfg.Operators.Binary)],
             Features |->
                [Compound |-> Merged(hasF /\ Has(partial.Features, "Compound"),
                                     partial.Features.Compound,
                                     cfg.Features.Compound),
                 Conditional |-> Merged(hasF /\ Has(partial.Features, "Conditional"),
                                        partial.Features.Conditional,
                                        cfg.Features.Conditional),
                 Identifiers |-> Merged(hasF /\ Has(partial.Features, "Identifiers"),
                                        partial.Features.Identifiers,
                                        cfg.Features.Identifiers),
                 Calls |-> Merged(hasF /\ Has(partial.Features, "Calls"),
                                  partial.Features.Calls,
                                  cfg.Features.Calls),
                 Members |->
                    [Computed |-> Merged(hasM /\ Has(partial.Features.Members, "Computed"),
                                         partial.Features.Members.Computed,
                                         cfg.Features.Members.Computed),
                     Static |-> Merged(hasM /\ Has(partial.Features.Members, "Static"),
                                       partial.Features.Members.Static,
                                       cfg.Features.Members.Static)],
                 Literals |->
                    [Array |-> Merged(hasL /\ Has(partial.Features.Literals, "Array"),
                                      partial.Features.Literals.Array,
                                      cfg.Features.Literals.Array),
                     Numeric |-> Merged(hasL /\ Has(partial.Features.Literals, "Numeric"),
                                        partial.Features.Literals.Numeric,
                                        cfg.Features.Literals.Numeric),
                     NumericSeparator |->
                         Merged(hasL /\ Has(partial.Features.Literals, "NumericSeparator"),
                                partial.Features.Literals.NumericSeparator,
                                cfg.Features.Literals.NumericSeparator),
                     String |-> Merged(hasL /\ Has(partial.Features.Literals, "String"),
                                       partial.Features.Literals.String,
                                       cfg.Features.Literals.String)]]]
    IN [config |-> merged,
        unaryOperatorLength |->
            IF hasUnary THEN getMaxMemLen(merged.Operators.Unary) ELSE ulen,
        binaryOperatorLength |->
            IF hasBinary THEN getMaxKeyLen(merged.Operators.Binary) ELSE blen]

\* __init__: the default configuration, set through SetConfig; the lengths
\* have no value before it
Constructed == SetConfig(GetDefaultConfig, 0, 0, GetDefaultConfig)

(***************************************************************************)
(* Parse and TryParse                                                      *)
(***************************************************************************)
\* str(n) of a natural number, as characters
DecimalChars == <<"0", "1", "2", "3", "4", "5", "6", "7", "8", "9">>

RECURSIVE Str(_)
Str(n) ==
    IF n < 10 THEN <<DecimalChars[n + 1]>>
    ELSE Append(Str(n \div 10), DecimalChars[(n % 10) + 1])

\* what json.dumps writes for one character of a str (ensure_ascii)
JsonEscape(ch) ==
    CASE ch = CHAR_DOUBLE_QUOTE -> <<CHAR_BACKSLASH, CHAR_DOUBLE_QUOTE>>
      [] ch = CHAR_BACKSLASH -> <<CHAR_BACKSLASH, CHAR_BACKSLASH>>
      [] ch = CHAR_LF -> <<CHAR_BACKSLASH, "n">>
      [] ch = CHAR_CR -> <<CHAR_BACKSLASH, "r">>
      [] ch = CHAR_TAB -> <<CHAR_BACKSLASH, "t">>
      [] ch = CHAR_BS -> <<CHAR_BACKSLASH, "b">>
      [] ch = CHAR_FF -> <<CHAR_BACKSLASH, "f">>
      [] ch = CHAR_VT -> <<CHAR_BACKSLASH, "u", "0", "0", "0", "b">>
      [] ch = "<U+00E9>" -> <<CHAR_BACKSLASH, "u", "0", "0", "e", "9">>
      [] OTHER -> <<ch>>

RECURSIVE JsonEscapes(_)
JsonEscapes(text) ==
    IF text = <<>> THEN <<>>
    ELSE JsonEscape(text[1]) \o JsonEscapes(Tail(text))

\* json.dumps of a str
JsonDumps(text) ==
    <<CHAR_DOUBLE_QUOTE>> \o JsonEscapes(text) \o <<CHAR_DOUBLE_QUOTE>>

\* the error messages that end with the json.dumps of a text
QuotingErrors ==
    {"Unexpected ", "Expected ", "Expected expression after ",
     "Expected exponent after ",
     "Variable names cannot start with a number like ",
     "Unclosed quote after ", "Duplicate ", "Unclosed "}

\* the `error` string of a ParsingError: the fixed words, one element, and
\* the characters of the quoted detail
Message(e) ==
    IF e.error \in QuotingErrors THEN <<e.error>> \o JsonDumps(e.detail)
    ELSE IF e.error = "Unknown literal "
    THEN <<e.error, CHAR_DOUBLE_QUOTE>> \o e.detail \o <<CHAR_DOUBLE_QUOTE>>
    ELSE <<e.error>>

\* str() of a ParsingError: the text its constructor hands to Exception
Rendered(e) ==
    <<"Index ">> \o Str(e.index) \o <<" of ">> \o JsonDumps(e.expr)
    \o <<": ">> \o Message(e)

\* Parse without the three assignments at its entry: the parser works on
\* what the last call left in the cursor
ParseEntryKept(cursor, text) == cursor

\* the assignments at the entry of Parse, applied to the cursor the last call
\* left
ParseEntry(cursor, text) == [index |-> 0, expr |-> text, length |-> Len(text)]

\* the cursor as the instance holds it between two calls
Cursor == [index |-> index, expr |-> expr, length |-> length]

\* __gobbleCompound run from a cursor
ParseFrom(cfg, ulen, blen, cursor) ==
    gobble("gobbleCompound", Self(cfg, ulen, blen, cursor.expr, cursor.length),
           cursor.index, <<>>)

\* the try block of Parse: the cursor is set, then __gobbleCompound runs
ParseBody(cfg, ulen, blen, text) ==
    ParseFrom(cfg, ulen, blen, ParseEntry(Cursor, text))

\* Parse without its finally block
ParseNoFinally(cursor) == cursor

\* the finally block of Parse, applied to the cursor the try block left
ParseFinally(cursor) == [index |-> 0, expr |-> <<>>, length |-> 0]

\* what the caller of Parse observes: the tree returned or the exception raised
ParseOutcome(body) ==
    [node |-> body.node, error |-> NoException, raised |-> body.exc]

\* TryParse: a ParsingError raised by Parse becomes the second component
TryParseOutcome(body) ==
    IF body.exc.kind = "ParsingError"
    THEN [node |-> None, error |-> body.exc, raised |-> NoException]
    ELSE [node |-> body.node, error |-> NoException, raised |-> body.exc]

NoResult == [call |-> "none", input |-> <<>>, node |-> None,
             error |-> NoException, raised |-> NoException]

Called(call, text, outcome) ==
    [call |-> call, input |-> text, node |-> outcome.node,
     error |-> outcome.error, raised |-> outcome.raised]

(***************************************************************************)
(* The caller's mutations of a configuration it was handed                 *)
(***************************************************************************)
star == <<"*">>
power == <<"*", "*", "*", "*">>
not_ == <<"n", "o", "t">>

Mutations == {"Literals", "Unary", "Binary", "Features", "Members", "FLiterals"}

\* one in-place change of each dict and list of a configuration value
Mutate(cfg, m) ==
    CASE m = "Literals" ->
            [cfg EXCEPT !.Operators.Literals = (<<"a">> :> PyTrue) @@ @]
      [] m = "Unary" ->
            [cfg EXCEPT !.Operators.Unary = Append(@, not_)]
      [] m = "Binary" ->
            [cfg EXCEPT !.Operators.Binary = (power :> 11) @@ (star :> 1) @@ @]
      [] m = "Features" ->
            [cfg EXCEPT !.Features.Compound = ~@, !.Features.Calls = ~@]
      [] m = "Members" ->
            [cfg EXCEPT !.Features.Members.Static = ~@]
      [] m = "FLiterals" ->
            [cfg EXCEPT !.Features.Literals.Numeric = ~@,
                        !.Features.Literals.NumericSeparator = <<"_">>]

MutatedGroup(m) ==
    CASE m = "Literals" -> "Operators.Literals"
      [] m = "Unary" -> "Operators.Unary"
      [] m = "Binary" -> "Operators.Binary"
      [] m = "Features" -> "Features"
      [] m = "Members" -> "Features.Members"
      [] m = "FLiterals" -> "Features.Literals"

(***************************************************************************)
(* Bounds, configurations and inputs of the model                          *)
(***************************************************************************)
MaxSetConfig == 2
MaxMutations == 1
MaxInputLen == 4
MaxChainOps == 3

AltBinary ==
    (<<"-">> :> 3) @@ (<<"+">> :> 2) @@ (<<"*">> :> 1) @@ (<<"/">> :> 3) @@
    (<<"*", "*">> :> 4)
AltUnary == << not_, <<"-">> >>
AltLiterals == (<<"a">> :> PyNone)

AltConfig ==
    [Operators |-> [Literals |-> AltLiterals, Unary |-> AltUnary,
                    Binary |-> AltBinary],
     Features |->
        [Compound |-> FALSE, Conditional |-> FALSE, Identifiers |-> FALSE,
         Calls |-> FALSE,
         Members |-> [Static |-> FALSE, Computed |-> FALSE],
         Literals |-> [Numeric |-> FALSE, NumericSeparator |-> <<"_">>,
                       String |-> FALSE, Array |-> FALSE]]]

\* the arguments SetConfig is called with
PartialConfigs ==
    << NoConfig,
       <<>>,
       GetDefaultConfig,
       AltConfig,
       [Operators |-> <<>>, Features |-> <<>>],
       [Operators |-> [Binary |-> AltBinary, Unary |-> <<>>]],
       [Operators |-> [Literals |-> AltLiterals, Binary |-> <<>>]],
       [Features |-> [Compound |-> FALSE, Calls |-> FALSE]],
       [Features |-> [Members |-> [Static |-> FALSE]]],
       [Features |-> [Members |-> <<>>,
                      Literals |-> [NumericSeparator |-> <<"_">>]]] >>

\* the texts parsed on an instance whose configuration changes
SmallInputs ==
    { <<>>,
      <<"1", ";", "2">>,
      <<".">>,
      <<"f", "(", "1", ")">>,
      <<"2", "-", "3", "*", "*", "4">>,
      <<"'", "a">> }

\* the configurations a text is parsed under as a function of its argument
ParseProfiles ==
    << <<>>,
       [Features |-> [Compound |-> FALSE]],
       [Features |-> [Calls |-> FALSE]],
       [Operators |-> [Binary |-> AltBinary]] >>

ParseAlphabet == {"1", "a", "-", "*", ";", "(", ")"}

Strings(alphabet, n) == UNION {[1..k -> alphabet] : k \in 0..n}

\* operand chains: the k-th operand is the digit k + 1
ChainOps == { <<"-">>, <<"+">>, <<"*">>, <<"/">>, <<"*", "*">> }
ChainOperands == <<"2", "3", "4", "5", "6", "7">>

RECURSIVE ChainText(_)
ChainText(ops) ==
    IF ops = <<>> THEN <<ChainOperands[1]>>
    ELSE ChainText(SubSeq(ops, 1, Len(ops) - 1))
         \o ops[Len(ops)] \o <<ChainOperands[Len(ops) + 1]>>

Chains == {ChainText(ops) : ops \in Strings(ChainOps, MaxChainOps)}

Examples ==
    { <<"2", "-", "3", "-", "4">>,
      <<"2", "+", "3", "*", "4">>,
      <<"2", "*", "3", "+", "4">>,
      <<"f", "(", "1", ")">>,
      <<"1", ";", "2">>,
      <<".">>,
      <<" ">> }

Inputs == Strings(ParseAlphabet, MaxInputLen) \cup Chains \cup Examples

(***************************************************************************)
(* The instance                                                            *)
(***************************************************************************)
Held(r) == [value |-> r.value, shared |-> r.shared, mutations |-> 0]
NothingHeld == [value |-> NoConfig, shared |-> {}, mutations |-> 0]

\* the callers that share the instance, and what each has in its Parse frame:
\* where it stands, its argument, the nodes of __gobbleCompound, what the call
\* gave, and whether another call ran between its entry and its return
Threads == {"A", "B"}

Idle == [pc |-> "idle", text |-> <<>>, nodes |-> <<>>, outcome |-> NoResult,
         overlapped |-> FALSE, count |-> 0]

NoCalls == [t \in Threads |-> Idle]

Init ==
    /\ config = Constructed.config
    /\ unaryOperatorLength = Constructed.unaryOperatorLength
    /\ binaryOperatorLength = Constructed.binaryOperatorLength
    /\ index = 0
    /\ length = 0
    /\ expr = <<>>
    /\ result = NoResult
    /\ returned = NothingHeld
    /\ arg = <<>>
    /\ nconfig = 0
    /\ calls = NoCalls

CallSetConfig(partial) ==
    LET set == SetConfig(config, unaryOperatorLength, binaryOperatorLength,
                         partial)
    IN /\ nconfig < MaxSetConfig
       /\ nconfig' = nconfig + 1
       /\ config' = set.config
       /\ unaryOperatorLength' = set.unaryOperatorLength
       /\ binaryOperatorLength' = set.binaryOperatorLength
       /\ returned' = Held(GetConfig(set.config))
       /\ UNCHANGED <<index, length, expr, result, arg, calls>>

CallGetConfig ==
    /\ returned' = Held(GetConfig(config))
    /\ UNCHANGED <<config, unaryOperatorLength, binaryOperatorLength,
                   index, length, expr, result, arg, nconfig, calls>>

\* the caller changes a dict or list of the configuration value it holds; a
\* group that is the instance's own object changes in the instance too
MutateReturned(m) ==
    /\ returned.value # NoConfig
    /\ returned.mutations < MaxMutations
    /\ returned' = [returned EXCEPT !.value = Mutate(@, m),
                                    !.mutations = @ + 1]
    /\ config' = IF MutatedGroup(m) \in returned.shared
                 THEN Mutate(config, m)
                 ELSE config
    /\ UNCHANGED <<unaryOperatorLength, binaryOperatorLength,
                   index, length, expr, result, arg, nconfig, calls>>

\* one call of Parse or TryParse, from entry to return
CallParser(call, text) ==
    LET body == ParseBody(config, unaryOperatorLength, binaryOperatorLength,
                          text)
        cursor == ParseFinally([index |-> body.i, expr |-> text,
                                length |-> Len(text)])
    IN /\ index' = cursor.index
       /\ expr' = cursor.expr
       /\ length' = cursor.length
       /\ result' = Called(call, text,
                           IF call = "Parse" THEN ParseOutcome(body)
                           ELSE TryParseOutcome(body))
       /\ UNCHANGED <<config, unaryOperatorLength, binaryOperatorLength,
                      returned, arg, nconfig, calls>>

CallParse(text) == CallParser("Parse", text)
CallTryParse(text) == CallParser("TryParse", text)

Next ==
    \/ \E k \in 1..Len(PartialConfigs) : CallSetConfig(PartialConfigs[k])
    \/ CallGetConfig
    \/ \E m \in Mutations : MutateReturned(m)
    \/ \E text \in SmallInputs : CallParse(text)
    \/ \E text \in SmallInputs : CallTryParse(text)

Spec == Init /\ [][Next]_vars

(***************************************************************************)
(* Parse as a function of its argument: the text and the configuration are *)
(* drawn at the start, and the text is parsed once                         *)
(***************************************************************************)
Profile(k) == SetConfig(Constructed.config, Constructed.unaryOperatorLength,
                        Constructed.binaryOperatorLength, ParseProfiles[k])

InitParse ==
    /\ \E k \in 1..Len(ParseProfiles) :
          /\ config = Profile(k).config
          /\ unaryOperatorLength = Profile(k).unaryOperatorLength
          /\ binaryOperatorLength = Profile(k).binaryOperatorLength
    /\ index = 0
    /\ length = 0
    /\ expr = <<>>
    /\ result = NoResult
    /\ returned = NothingHeld
    /\ arg \in Inputs
    /\ nconfig = 0
    /\ calls = NoCalls

NextParse ==
    \/ result.call = "none" /\ CallParse(arg)
    \/ result.call = "none" /\ CallTryParse(arg)

SpecParse == InitParse /\ [][NextParse]_vars

(***************************************************************************)
(* Trees                                                                   *)
(***************************************************************************)
Range(s) == {s[k] : k \in 1..Len(s)}

\* the nodes a node holds directly
Children(n) ==
    CASE n.type = "Compound" -> Range(n.body)
      [] n.type = "MemberExpression" -> {n.object, n.property}
      [] n.type = "CallExpression" -> Range(n.arguments) \cup {n.callee}
      [] n.type = "UnaryExpression" -> {n.argument}
      [] n.type = "BinaryExpression" -> {n.left, n.right}
      [] n.type = "ConditionalExpression" ->
            {n.test, n.consequent, n.alternate}
      [] n.type = "ArrayExpression" -> Range(n.elements)
      [] OTHER -> {}

\* every node of the tree under n, n included
RECURSIVE Nodes(_)
Nodes(n) == {n} \cup UNION {Nodes(c) : c \in Children(n)}

\* the Literal node of a one-digit number
Digit(d) == NumericLiteral([t |-> "number", v |-> <<DigitValue[d], 0>>], <<d>>)

\* the k-th operand of a chain
Operand(k) == Digit(ChainOperands[k])

ParseReturned == result.call = "Parse" /\ result.raised.kind = "none"
Configured(op) == op \in DOMAIN config.Operators.Binary
Precedence(op) == config.Operators.Binary[op]

(***************************************************************************)
(* C1  Binary operators of equal precedence associate to the left: for     *)
(* operands a, b, c and configured operators op1, op2 of equal precedence  *)
(* Parse("a op1 b op2 c") is Binary(op2, Binary(op1, a, b), c), and        *)
(* Parse("2-3-4") is Binary("-", Binary("-", 2, 3), 4).                    *)
(***************************************************************************)
C1_EqualPrecedenceAssociatesLeft ==
    \A op1 \in ChainOps, op2 \in ChainOps :
        (/\ result.call = "Parse"
         /\ result.input = ChainText(<<op1, op2>>)
         /\ Configured(op1) /\ Configured(op2)
         /\ Precedence(op1) = Precedence(op2))
        => result.node = Binary(op2, Binary(op1, Operand(1), Operand(2)),
                                Operand(3))

(***************************************************************************)
(* C2  Binary operators of differing precedence bind by precedence: in the *)
(* tree Parse returns for a text without parentheses no BinaryExpression   *)
(* has as a direct operand a BinaryExpression of lower precedence;         *)
(* Parse("2+3*4") is Binary("+", 2, Binary("*", 3, 4)) and Parse("2*3+4")  *)
(* is Binary("+", Binary("*", 2, 3), 4).                                   *)
(***************************************************************************)
C2_HigherPrecedenceBindsTighter ==
    (ParseReturned /\ ~InList(CHAR_OPEN_PARENTHESES, result.input)) =>
        /\ \A n \in Nodes(result.node) :
              n.type = "BinaryExpression" =>
                \A c \in {n.left, n.right} :
                    c.type = "BinaryExpression" =>
                        Precedence(c.operator) >= Precedence(n.operator)
        /\ (config = GetDefaultConfig /\ result.input = <<"2", "+", "3", "*", "4">>)
              => result.node = Binary(<<"+">>, Digit("2"),
                                      Binary(<<"*">>, Digit("3"), Digit("4")))
        /\ (config = GetDefaultConfig /\ result.input = <<"2", "*", "3", "+", "4">>)
              => result.node = Binary(<<"+">>,
                                      Binary(<<"*">>, Digit("2"), Digit("3")),
                                      Digit("4"))

\* a chain of four operands whose middle operator binds tightest was parsed
C2_Witness ==
    /\ ParseReturned
    /\ result.input = ChainText(<< <<"+">>, <<"*">>, <<"-">> >>)
    /\ config = GetDefaultConfig
    /\ result.node.type = "BinaryExpression"
    /\ result.node.left = Operand(1)

(***************************************************************************)
(* C3  A Parse call that does not return a tree fails with a ParsingError  *)
(* and with no other kind of failure; TryParse never raises and returns    *)
(* exactly one of (tree, absent) or (absent, ParsingError), agreeing with  *)
(* what Parse does on the same input.                                      *)
(***************************************************************************)
C3_FailuresAreParsingErrors ==
    LET parse == ParseOutcome(ParseBody(config, unaryOperatorLength,
                                        binaryOperatorLength, result.input))
    IN /\ result.call = "Parse" =>
              result.raised.kind \in {"none", "ParsingError"}
       /\ result.call = "TryParse" =>
              /\ result.raised.kind = "none"
              /\ (result.node = None) # (result.error = NoException)
              /\ IF parse.raised.kind = "none"
                 THEN result.node = parse.node /\ result.error = NoException
                 ELSE result.node = None /\ result.error = parse.raised

(***************************************************************************)
(* C4  With Features.Calls = false and every other feature at its default, *)
(* Parse("f(1)") fails with an error; it returns no tree.                  *)
(***************************************************************************)
CallsDisabled == [GetDefaultConfig EXCEPT !.Features.Calls = FALSE]

C4_CallsDisabledRejectsCall ==
    (/\ result.call = "Parse"
     /\ config = CallsDisabled
     /\ result.input = <<"f", "(", "1", ")">>)
    => (result.raised.kind = "ParsingError" /\ result.node = None)

(***************************************************************************)
(* C5  In every tree returned by Parse a Compound node appears only as the *)
(* root and only when the Compound feature is enabled; its body never has  *)
(* exactly one element: it has at least two, or none when no top-level      *)
(* expression was found, as for the empty text.                            *)
(***************************************************************************)
C5_CompoundOnlyAtRoot ==
    ParseReturned =>
        /\ \A n \in Nodes(result.node) :
              n.type = "Compound" => n = result.node
        /\ result.node.type = "Compound" =>
              /\ config.Features.Compound
              /\ Len(result.node.body) # 1

\* C5 as the specification states it: the body of a Compound has at least
\* two elements
C5_CompoundHasSeveral ==
    (ParseReturned /\ result.node.type = "Compound") =>
        /\ config.Features.Compound
        /\ Len(result.node.body) >= 2
        /\ \A n \in Nodes(result.node) :
              n.type = "Compound" => n = result.node

\* Parse returned a Compound whose elements hold nodes themselves
C5_Witness ==
    /\ ParseReturned
    /\ result.node.type = "Compound"
    /\ Len(result.node.body) = 2
    /\ Children(result.node.body[2]) # {}

(***************************************************************************)
(* C6  When exactly one top-level expression is found Parse returns that   *)
(* node itself (Parse("1") is Literal(1)); when several are found and      *)
(* Compound is enabled Parse returns Compound whose body holds them in     *)
(* source order (Parse("1;2") is Compound[Literal(1), Literal(2)]).        *)
(***************************************************************************)
Leaf(ch) == IF ch \in DecimalDigits THEN Digit(ch) ELSE Identifier(<<ch>>)

C6_SingleUnwrappedSeveralInOrder ==
    LET found == CompoundLoop(Self(config, unaryOperatorLength,
                                   binaryOperatorLength, result.input,
                                   Len(result.input)), 0, <<>>).nodes
    IN ParseReturned =>
        /\ Len(found) = 1 => result.node = found[1]
        /\ Len(found) > 1 => result.node = Compound(found)
        /\ result.input = <<"1">> => result.node = Digit("1")
        /\ \A x \in {"1", "2", "a"}, y \in {"1", "2", "a"} :
              result.input = <<x, CHAR_SEMICOLON, y>> =>
                  result.node = Compound(<<Leaf(x), Leaf(y)>>)

\* Parse("1;2") returned Compound[Literal(1), Literal(2)]
C6_Witness ==
    /\ ParseReturned
    /\ result.input = <<"1", CHAR_SEMICOLON, "2">>
    /\ result.node = Compound(<<Digit("1"), Digit("2")>>)

(***************************************************************************)
(* C7  GetConfig returns an independent copy: a mutation of the returned   *)
(* value (its Literals, Unary, Binary tables or its Features, Members,     *)
(* Literals groups) leaves the active configuration, the derived operator  *)
(* lengths and the result of every later Parse unchanged.                  *)
(***************************************************************************)
C7_ReturnedConfigIsIndependent ==
    [][returned'.mutations > returned.mutations =>
         /\ config' = config
         /\ unaryOperatorLength' = unaryOperatorLength
         /\ binaryOperatorLength' = binaryOperatorLength
         /\ \A text \in SmallInputs :
               ParseBody(config', unaryOperatorLength',
                         binaryOperatorLength', text)
               = ParseBody(config, unaryOperatorLength,
                           binaryOperatorLength, text)]_vars

\* the caller holds a mutated configuration that differs from the active one
C7_Witness ==
    /\ returned.mutations > 0
    /\ ~IsNone(returned.value)
    /\ returned.value.Operators.Binary # config.Operators.Binary
    /\ result.call = "Parse"

(***************************************************************************)
(* C8  SetConfig(partial) changes exactly the fields present in partial,   *)
(* leaves every other field of the active configuration as it was and      *)
(* returns the resulting full configuration, which is what GetConfig       *)
(* returns next; SetConfig of a full configuration makes the active        *)
(* configuration equal to it whatever SetConfig calls came before, and     *)
(* SetConfig of nothing changes nothing.                                   *)
(***************************************************************************)
Fields ==
    { <<"Operators", "Literals">>, <<"Operators", "Unary">>,
      <<"Operators", "Binary">>,
      <<"Features", "Compound">>, <<"Features", "Conditional">>,
      <<"Features", "Identifiers">>, <<"Features", "Calls">>,
      <<"Features", "Members", "Computed">>,
      <<"Features", "Members", "Static">>,
      <<"Features", "Literals", "Array">>,
      <<"Features", "Literals", "Numeric">>,
      <<"Features", "Literals", "NumericSeparator">>,
      <<"Features", "Literals", "String">> }

\* whether the dict d has a value at the path
RECURSIVE Supplied(_, _)
Supplied(d, path) ==
    \/ path = <<>>
    \/ /\ ~IsNone(d)
       /\ Head(path) \in DOMAIN d
       /\ Supplied(d[Head(path)], Tail(path))

\* the value of the dict d at the path
RECURSIVE Field(_, _)
Field(d, path) ==
    IF path = <<>> THEN d ELSE Field(d[Head(path)], Tail(path))

C8_SetConfigMergesPresentFields ==
    /\ (returned.mutations = 0 /\ ~IsNone(returned.value)) =>
          returned.value = config
    /\ \A k \in 1..Len(PartialConfigs) :
          LET partial == PartialConfigs[k]
              set == SetConfig(config, unaryOperatorLength,
                               binaryOperatorLength, partial)
          IN /\ \A f \in Fields :
                   Field(set.config, f) =
                       IF Supplied(partial, f) THEN Field(partial, f)
                       ELSE Field(config, f)
             /\ GetConfig(set.config).value = set.config
             /\ (\A f \in Fields : Supplied(partial, f)) =>
                   set.config = partial
             /\ (\A f \in Fields : ~Supplied(partial, f)) =>
                   /\ set.config = config
                   /\ set.unaryOperatorLength = unaryOperatorLength
                   /\ set.binaryOperatorLength = binaryOperatorLength

\* two partial configurations were merged into the default one
C8_Witness ==
    /\ nconfig = 2
    /\ returned.mutations = 0
    /\ returned.value = config
    /\ config.Operators.Binary = AltBinary
    /\ config.Operators.Literals = GetDefaultConfig.Operators.Literals
    /\ ~config.Features.Calls
    /\ config.Features.Members.Static

(***************************************************************************)
(* C9  In every state reachable from construction by SetConfig, GetConfig  *)
(* and Parse calls the derived unary operator length is the length of the  *)
(* longest spelling of the active unary set and the derived binary         *)
(* operator length the length of the longest key of the active binary      *)
(* table, 0 when the set or table is empty.                                *)
(***************************************************************************)
LongestOf(S) ==
    IF S = {} THEN 0
    ELSE CHOOSE n \in {Len(x) : x \in S} : \A y \in S : Len(y) <= n

C9_LengthsAreMaxima ==
    /\ unaryOperatorLength = LongestOf(Range(config.Operators.Unary))
    /\ binaryOperatorLength = LongestOf(DOMAIN config.Operators.Binary)

\* the binary table was replaced and the unary set emptied
C9_Witness ==
    /\ config.Operators.Binary = AltBinary
    /\ binaryOperatorLength = 2
    /\ config.Operators.Unary = <<>>
    /\ unaryOperatorLength = 0

(***************************************************************************)
(* C10  A Parse or TryParse call leaves the instance as it found it: on    *)
(* return, whether it succeeded or failed, the cursor fields are back at   *)
(* their reset values (offset 0, empty source text, length 0) and the      *)
(* active configuration and derived operator lengths are unchanged.        *)
(***************************************************************************)
C10_ParseLeavesInstanceUnchanged ==
    [][result' # result =>
         /\ index' = 0
         /\ expr' = <<>>
         /\ length' = 0
         /\ config' = config
         /\ unaryOperatorLength' = unaryOperatorLength
         /\ binaryOperatorLength' = binaryOperatorLength]_vars

\* a TryParse call failed on an instance whose configuration had been set
C10_Witness ==
    /\ result.call = "TryParse"
    /\ result.error.kind = "ParsingError"
    /\ nconfig > 0
    /\ index = 0 /\ expr = <<>> /\ length = 0

\* Parse on an instance just constructed and given the configuration cfg
FreshParse(cfg, text) ==
    Called("Parse", text,
           ParseOutcome(gobble("gobbleCompound",
                               Self(cfg, LongestOf(Range(cfg.Operators.Unary)),
                                    LongestOf(DOMAIN cfg.Operators.Binary),
                                    text, Len(text)),
                               0, <<>>)))

(***************************************************************************)
(* C11  Parse is deterministic and independent of the history of the       *)
(* instance: whatever calls were made before, successful or failed, a      *)
(* Parse of a text under a configuration returns the tree, or raises the   *)
(* error (message and offset), that a Parse of the same text returns or    *)
(* raises on an instance that has made no call before.                     *)
(***************************************************************************)
C11_ParseIsHistoryIndependent ==
    [][(result'.call = "Parse" /\ result' # result) =>
          result' = FreshParse(config', result'.input)]_vars

\* a Parse failed with a positioned error on an instance whose configuration
\* had been set twice and handed out
C11_Witness ==
    /\ result.call = "Parse"
    /\ result.raised.kind = "ParsingError"
    /\ result.raised.index > 0
    /\ nconfig = MaxSetConfig
    /\ returned.mutations > 0
    /\ index = 0 /\ expr = <<>>

(***************************************************************************)
(* Parse as a function of its argument, on texts of one syntactic form at  *)
(* a time: operators, conditionals, numbers, strings, lists, groups, names *)
(***************************************************************************)
MaxOperatorLen == 5

\* a binary table with ">" and ">>>" but no ">>", and a unary list in which
\* one spelling is a prefix of the other
GapBinary == (<<">">> :> 7) @@ (<<">", ">", ">">> :> 8) @@ (<<"=">> :> 6)
PrefixUnary == << <<"-">>, <<"-", "-">> >>

\* a unary operator that is spelled as a literal name is
ClashLiterals == (not_ :> PyTrue) @@ AltLiterals

SyntaxProfiles ==
    << <<>>,
       [Features |-> [Identifiers |-> FALSE]],
       [Features |-> [Literals |-> [NumericSeparator |-> <<"_">>]]],
       [Operators |-> [Binary |-> GapBinary, Unary |-> PrefixUnary]],
       [Operators |-> [Unary |-> AltUnary, Literals |-> ClashLiterals]] >>

OperatorTexts == Strings({"1", ">", "=", "-"}, MaxOperatorLen)

MaxConditionalLen == 6

NestedConditional == <<"a", "?", "b", ":", "c", "?", "d", ":", "e">>

ConditionalTexts ==
    Strings({"a", "?", ":"}, MaxConditionalLen)
    \cup { NestedConditional,
           <<"a", "?", "b", "?", "c", ":", "d", ":", "e">>,
           <<"a", "?", "b", ":", "c", ":", "d">>,
           <<"a", " ", "?", " ", "b">> }

MaxNumericLen == 4

NumericTexts ==
    Strings({"1", "a", "e", "_", "$", "."}, MaxNumericLen)
    \cup { <<"1", "2", "3", "a", "b", "c">>,
           <<"1", "<U+00E9>">>,
           <<"1", "2", "Z">>,
           <<"1", "E", "+", "1">>,
           <<"1", "e", "-", "1", "a">>,
           <<"1", ".", "5", "e", "1", "x">> }

MaxStringLen == 4

StringTexts ==
    Strings({CHAR_SINGLE_QUOTE, "a", CHAR_BACKSLASH, "n"}, MaxStringLen)
    \cup { <<CHAR_SINGLE_QUOTE, "a", "b", "c">>,
           <<CHAR_DOUBLE_QUOTE, "a", CHAR_SINGLE_QUOTE>>,
           <<CHAR_DOUBLE_QUOTE, "a", CHAR_DOUBLE_QUOTE>> }

MaxNameLen == 3

NameTexts ==
    Strings({"a", "b", CHAR_PERIOD}, MaxNameLen)
    \cup { <<"t", "r", "u", "e">>,
           <<"n", "u", "l", "l">>,
           <<"t", "r", "u">>,
           <<"t", "r", "u", "e", "r">>,
           <<"x">>,
           <<"a", CHAR_PERIOD, "t", "r", "u", "e">>,
           not_,
           not_ \o <<" ", "a">>,
           <<"a", CHAR_PERIOD>> \o not_ }

MaxListLen == 4

\* what stands between the brackets of a list
ListItems == Strings({"1", CHAR_COMMA, CHAR_SPACE}, MaxListLen)

ListTexts ==
    {<<"f", CHAR_OPEN_PARENTHESES>> \o items \o <<CHAR_CLOSE_PARENTHESES>> :
        items \in ListItems}
    \cup {<<CHAR_OPEN_BRACKET>> \o items \o <<CHAR_CLOSE_BRACKET>> :
             items \in ListItems}

MaxGroupLen == 4

GroupTexts ==
    Strings({CHAR_OPEN_PARENTHESES, CHAR_CLOSE_PARENTHESES, CHAR_SPACE, "1"},
            MaxGroupLen)

SyntaxInputs == OperatorTexts \cup ConditionalTexts \cup NumericTexts
    \cup StringTexts \cup NameTexts \cup ListTexts
    \cup GroupTexts

SyntaxProfile(k) ==
    SetConfig(Constructed.config, Constructed.unaryOperatorLength,
              Constructed.binaryOperatorLength, SyntaxProfiles[k])

InitSyntax ==
    /\ \E k \in 1..Len(SyntaxProfiles) :
          /\ config = SyntaxProfile(k).config
          /\ unaryOperatorLength = SyntaxProfile(k).unaryOperatorLength
          /\ binaryOperatorLength = SyntaxProfile(k).binaryOperatorLength
    /\ index = 0
    /\ length = 0
    /\ expr = <<>>
    /\ result = NoResult
    /\ returned = NothingHeld
    /\ arg \in SyntaxInputs
    /\ nconfig = 0
    /\ calls = NoCalls

SpecSyntax == InitSyntax /\ [][NextParse]_vars

\* the parser as the instance is configured, on the text drawn
Drawn == Self(config, unaryOperatorLength, binaryOperatorLength, arg, Len(arg))

IsPrefix(p, text) == Len(p) <= Len(text) /\ SubSeq(text, 1, Len(p)) = p

\* the spellings of `known` the text starts with
PrefixesIn(known, text) == {op \in known : IsPrefix(op, text)}

\* `found` is the longest spelling of `known` the text starts with, <<>> when
\* it starts with none
IsLongestIn(found, known, text) ==
    IF PrefixesIn(known, text) = {} THEN found = <<>>
    ELSE /\ found \in PrefixesIn(known, text)
         /\ \A op \in PrefixesIn(known, text) : Len(op) <= Len(found)

Rest(i) == Slice(arg, i, Len(arg))

(***************************************************************************)
(* C12  Operator lookup is longest-match: at every offset of the text the  *)
(* binary scan skips spaces, returns the longest configured binary         *)
(* operator the remaining text starts with and advances the cursor by      *)
(* exactly its length, and finds nothing only when no configured operator  *)
(* starts the remaining text; the unary lookup of a token likewise takes   *)
(* the longest configured unary operator.  With `>`, `>>` and `>>>`        *)
(* configured, `1>>>1` is the binary expression of `>>>`.                  *)
(***************************************************************************)
C12_OperatorLookupIsLongestMatch ==
    /\ \A i \in 0..Len(arg) :
          LET start == gobbleSpaces(Drawn, i)
              op == gobbleBinaryOp(Drawn, i)
          IN /\ IsLongestIn(op.value, DOMAIN config.Operators.Binary,
                            Rest(start))
             /\ op.i = start + Len(op.value)
             /\ op.found <=> PrefixesIn(DOMAIN config.Operators.Binary,
                                       Rest(start)) # {}
    /\ (ParseReturned /\ result.node.type = "UnaryExpression") =>
          IsLongestIn(result.node.operator, Range(config.Operators.Unary), arg)
    /\ (ParseReturned /\ arg = <<"1", ">", ">", ">", "1">>
          /\ {<<">">>, <<">", ">">>, <<">", ">", ">">>}
                \subseteq DOMAIN config.Operators.Binary) =>
          result.node = Binary(<<">", ">", ">">>, Digit("1"), Digit("1"))

\* `1>>>1` was parsed with `>`, `>>` and `>>>` configured
C12_Witness ==
    /\ ParseReturned
    /\ arg = <<"1", ">", ">", ">", "1">>
    /\ <<">", ">">> \in DOMAIN config.Operators.Binary
    /\ result.node.type = "BinaryExpression"
    /\ result.node.operator = <<">", ">", ">">>

\* `--1` was parsed with the unary operators `-` and `--` configured
C12_WitnessUnary ==
    /\ ParseReturned
    /\ arg = <<"-", "-", "1">>
    /\ config.Operators.Unary = PrefixUnary
    /\ result.node = Unary(<<"-", "-">>, Digit("1"))

Letters == UpperCase \cup LowerCase

\* a text that is one name of letters
IsName(text) == text # <<>> /\ \A k \in 1..Len(text) : text[k] \in Letters

\* the places a conditional can be cut at: a name, `?`, a conditional, `:`,
\* a conditional
RECURSIVE IsConditionalText(_)
Cuts(text) ==
    {cut \in (1..Len(text)) \X (1..Len(text)) :
        /\ cut[1] < cut[2]
        /\ text[cut[1]] = CHAR_QUESTIONMARK
        /\ text[cut[2]] = CHAR_COLON
        /\ IsName(SubSeq(text, 1, cut[1] - 1))
        /\ IsConditionalText(SubSeq(text, cut[1] + 1, cut[2] - 1))
        /\ IsConditionalText(SubSeq(text, cut[2] + 1, Len(text)))}

\* the texts of the grammar  E ::= name | name ? E : E
IsConditionalText(text) == IsName(text) \/ Cuts(text) # {}

\* the node of a name: a literal when the table of literal names has it
NameNode(name) ==
    IF name \in DOMAIN config.Operators.Literals
    THEN Literal(config.Operators.Literals[name], name)
    ELSE Identifier(name)

\* the tree of a text of the grammar, nested to the right
RECURSIVE ConditionalTree(_)
ConditionalTree(text) ==
    IF IsName(text) THEN NameNode(text)
    ELSE LET cut == CHOOSE c \in Cuts(text) : TRUE
         IN Condition(NameNode(SubSeq(text, 1, cut[1] - 1)),
                      ConditionalTree(SubSeq(text, cut[1] + 1, cut[2] - 1)),
                      ConditionalTree(SubSeq(text, cut[2] + 1, Len(text))))

ConditionalForm ==
    /\ \A k \in 1..Len(arg) : arg[k] \in Letters \cup {CHAR_QUESTIONMARK, CHAR_COLON}
    /\ InList(CHAR_QUESTIONMARK, arg)

ParseFailed == result.call = "Parse" /\ result.raised.kind = "ParsingError"

(***************************************************************************)
(* C13  The conditional operator nests to the right: Parse of `a?b:c?d:e`  *)
(* is Conditional(a, b, Conditional(c, d, e)), and every text of names,    *)
(* `?` and `:` that follows the grammar E ::= name | name ? E : E parses   *)
(* to the tree of that grammar, a conditional in the alternate or in the   *)
(* consequent and never in the test.  A `?` with no consequent, no `:` or  *)
(* no alternate after it, as every other text with a `?` outside the       *)
(* grammar, makes Parse fail with a ParsingError.                          *)
(***************************************************************************)
C13_ConditionalNestsRight ==
    /\ (result.call = "Parse" /\ arg = NestedConditional
          /\ config.Features.Identifiers) =>
          /\ result.raised.kind = "none"
          /\ result.node =
                Condition(NameNode(<<"a">>), Identifier(<<"b">>),
                          Condition(Identifier(<<"c">>), Identifier(<<"d">>),
                                    Identifier(<<"e">>)))
    /\ (result.call = "Parse" /\ ConditionalForm /\ IsConditionalText(arg)
          /\ config.Features.Identifiers) =>
          /\ result.raised.kind = "none"
          /\ result.node = ConditionalTree(arg)
    /\ (result.call = "Parse" /\ ConditionalForm /\ ~IsConditionalText(arg)) =>
          ParseFailed
    /\ (result.call = "Parse"
          /\ arg \in { <<"a", "?">>, <<"a", "?", "a">>,
                       <<"a", "?", "a", ":">>, <<"a", "?", ":", "a">> }) =>
          ParseFailed

\* `a?b:c?d:e` was parsed to a conditional whose alternate is a conditional
C13_Witness ==
    /\ ParseReturned
    /\ arg = NestedConditional
    /\ result.node.type = "ConditionalExpression"
    /\ result.node.alternate.type = "ConditionalExpression"
    /\ result.node.test.type = "Identifier"

\* a `?` with a consequent and no `:` after it made Parse fail
C13_WitnessMissingColon ==
    /\ ParseFailed
    /\ arg = <<"a", "?", "a">>
    /\ result.raised.index = 3

\* the length of the run of decimal digits the text starts with
RECURSIVE DigitRun(_)
DigitRun(text) ==
    IF text # <<>> /\ isDecimalDigit(text[1]) THEN 1 + DigitRun(Tail(text))
    ELSE 0

\* the text starts with a run of digits directly followed by a character an
\* identifier can start with
DigitsThenIdentifierStart ==
    /\ DigitRun(arg) > 0
    /\ DigitRun(arg) < Len(arg)
    /\ isIdentifierStart(arg[DigitRun(arg) + 1])

Follower == arg[DigitRun(arg) + 1]

IsNumberNode(n) == n.type = "Literal" /\ "kind" \in DOMAIN n /\ n.kind = "number"

C14_WitnessExponent ==
    /\ ParseReturned
    /\ arg = <<"1", "e", "1">>
    /\ IsNumberNode(result.node)
    /\ result.node.raw = arg

\* no closing quote is found from place k on: a backslash takes the
\* character after it along
RECURSIVE NeverClosed(_, _, _)
NeverClosed(text, k, quote) ==
    IF k > Len(text) THEN TRUE
    ELSE IF text[k] = quote THEN FALSE
    ELSE IF text[k] = CHAR_BACKSLASH THEN NeverClosed(text, k + 2, quote)
    ELSE NeverClosed(text, k + 1, quote)

\* the text is a string literal whose closing quote is never found
UnterminatedString ==
    /\ arg # <<>>
    /\ arg[1] \in {CHAR_SINGLE_QUOTE, CHAR_DOUBLE_QUOTE}
    /\ config.Features.Literals.String
    /\ NeverClosed(arg, 2, arg[1])

(***************************************************************************)
(* C15  A string literal whose closing quote is never found makes Parse    *)
(* fail with an "unclosed quote" error positioned at the end of the input  *)
(* (offset = length of the input), for every unterminated body, one that   *)
(* ends in a backslash included.                                           *)
(***************************************************************************)
C15_UnclosedQuoteAtEndOfInput ==
    (result.call = "Parse" /\ UnterminatedString) =>
        /\ ParseFailed
        /\ result.raised.error = "Unclosed quote after "
        /\ result.raised.index = Len(arg)

\* what the code does: the error is raised, at the end of the input or, when
\* the body ends in an unescaped backslash, one place past it
C15_UnclosedQuoteAtOrPastEnd ==
    (result.call = "Parse" /\ UnterminatedString) =>
        /\ ParseFailed
        /\ result.raised.error = "Unclosed quote after "
        /\ result.raised.index \in {Len(arg), Len(arg) + 1}

\* an unterminated string that ends in a backslash: the error is positioned
\* past the end of the input
C15_PastEnd ==
    /\ ParseFailed
    /\ UnterminatedString
    /\ arg[Len(arg)] = CHAR_BACKSLASH
    /\ result.raised.index = Len(arg) + 1

\* the Literal nodes of the tree returned
LiteralsReturned ==
    IF ParseReturned THEN {n \in Nodes(result.node) : n.type = "Literal"}
    ELSE {}

\* Parse of the text alone, under the configuration of the instance
Alone(text) ==
    ParseOutcome(ParseBody(config, unaryOperatorLength, binaryOperatorLength,
                           text))

\* the text occurs in the input
OccursInInput(text) ==
    \E o \in 0..Len(arg) : Slice(arg, o, o + Len(text)) = text

(***************************************************************************)
(* C16  Raw text round-trips: for every Literal node of a returned tree,   *)
(* numeric, string or named, Parse of the node's raw alone under the same  *)
(* configuration returns a Literal of equal value, and raw is a substring  *)
(* of the source.                                                          *)
(***************************************************************************)
C16_RawRoundTrips ==
    \A n \in LiteralsReturned :
        /\ OccursInInput(n.raw)
        /\ Alone(n.raw).raised.kind = "none"
        /\ Alone(n.raw).node.type = "Literal"
        /\ Alone(n.raw).node.value = n.value

\* the same without the literal names that are also spelled as a unary
\* operator
C16_RawRoundTripsUnlessOperator ==
    \A n \in LiteralsReturned :
        /\ OccursInInput(n.raw)
        /\ n.raw \notin Range(config.Operators.Unary) =>
              /\ Alone(n.raw).raised.kind = "none"
              /\ Alone(n.raw).node = n

\* a member whose property is a literal name that is a unary operator too
C16_OperatorAsProperty ==
    /\ ParseReturned
    /\ arg = <<"a", CHAR_PERIOD>> \o not_
    /\ result.node.type = "MemberExpression"
    /\ result.node.property.type = "Literal"
    /\ result.node.property.raw = not_
    /\ Alone(not_).raised.kind = "ParsingError"

\* the text is a call of f or an array literal, closed
IsCallText == Len(arg) >= 3 /\ arg[1] = "f" /\ arg[2] = CHAR_OPEN_PARENTHESES
                /\ arg[Len(arg)] = CHAR_CLOSE_PARENTHESES
IsArrayText == Len(arg) >= 2 /\ arg[1] = CHAR_OPEN_BRACKET
                 /\ arg[Len(arg)] = CHAR_CLOSE_BRACKET
Items == IF IsCallText THEN SubSeq(arg, 3, Len(arg) - 1)
         ELSE SubSeq(arg, 2, Len(arg) - 1)

\* the list as it is configured to be read: of digits, commas and spaces
ListForm ==
    /\ IsCallText \/ IsArrayText
    /\ \A k \in 1..Len(Items) :
          Items[k] \in DecimalDigits \cup {CHAR_COMMA, CHAR_SPACE}
    /\ IsCallText => (config.Features.Calls /\ config.Features.Identifiers)
    /\ IsArrayText => config.Features.Literals.Array

\* the elements ("E", one per run of digits) and commas of the items, in
\* order
RECURSIVE ListTokens(_, _)
ListTokens(items, inRun) ==
    IF items = <<>> THEN <<>>
    ELSE IF items[1] \in DecimalDigits
    THEN (IF inRun THEN <<>> ELSE <<"E">>) \o ListTokens(Tail(items), TRUE)
    ELSE IF items[1] = CHAR_COMMA
    THEN <<CHAR_COMMA>> \o ListTokens(Tail(items), FALSE)
    ELSE ListTokens(Tail(items), FALSE)

Tokens == ListTokens(Items, FALSE)

CommaFirst == Tokens # <<>> /\ Tokens[1] = CHAR_COMMA
CommaTwice ==
    \E k \in 1..(Len(Tokens) - 1) :
        Tokens[k] = CHAR_COMMA /\ Tokens[k + 1] = CHAR_COMMA
CommaMissing ==
    \E k \in 1..(Len(Tokens) - 1) : Tokens[k] = "E" /\ Tokens[k + 1] = "E"

(***************************************************************************)
(* C17  In a call argument list or an array literal successive elements    *)
(* are separated by exactly one comma: a comma before the first element,   *)
(* two commas in a row, or two expressions with no comma between them      *)
(* each make Parse fail, for every such list, one with no elements at all  *)
(* included.                                                               *)
(***************************************************************************)
C17_ExactlyOneCommaBetweenElements ==
    (result.call = "Parse" /\ ListForm
       /\ (CommaFirst \/ CommaTwice \/ CommaMissing)) => ParseFailed

\* what the code does: such a list makes Parse fail unless it holds nothing
\* but one comma
C17_FailsUnlessLoneComma ==
    (result.call = "Parse" /\ ListForm
       /\ (CommaFirst \/ CommaTwice \/ CommaMissing)) =>
          (ParseFailed <=> Tokens # <<CHAR_COMMA>>)

\* a call whose argument list is one comma was returned as a call with no
\* arguments
C17_LoneCommaAccepted ==
    /\ ParseReturned
    /\ arg = <<"f", CHAR_OPEN_PARENTHESES, CHAR_COMMA, CHAR_CLOSE_PARENTHESES>>
    /\ result.node = Call(<<>>, Identifier(<<"f">>))

\* the text is of parentheses, spaces and digits
GroupForm ==
    \A k \in 1..Len(arg) :
        arg[k] \in DecimalDigits \cup {CHAR_OPEN_PARENTHESES,
                                      CHAR_CLOSE_PARENTHESES, CHAR_SPACE}

\* the offsets of the opening parentheses of the text
Openings == {i \in 0..(Len(arg) - 1) : arg[i + 1] = CHAR_OPEN_PARENTHESES}

\* an opening parenthesis is followed, after spaces, by a closing one
EmptyGroup ==
    \E i \in Openings :
        char(Drawn, gobbleSpaces(Drawn, i + 1)) = CHAR_CLOSE_PARENTHESES

\* an opening parenthesis and no closing one
NeverClosedGroup ==
    /\ Openings # {}
    /\ ~InList(CHAR_CLOSE_PARENTHESES, arg)

\* __gobbleGroup returned no node and moved the cursor
AbsentAndAdvanced(i) ==
    /\ ~Raised(gobbleGroup(Drawn, i))
    /\ gobbleGroup(Drawn, i).node = None
    /\ gobbleGroup(Drawn, i).i > i

(***************************************************************************)
(* C18  A parenthesised group requires an expression inside and a closing  *)
(* parenthesis: `(` followed, after spaces, by `)` makes Parse fail; `(`   *)
(* with no matching `)` makes Parse fail with an "unclosed (" error; and   *)
(* a group never yields an absent node with the cursor advanced past it.   *)
(***************************************************************************)
C18_GroupRequiresExpression ==
    /\ (result.call = "Parse" /\ GroupForm /\ EmptyGroup) => ParseFailed
    /\ (result.call = "Parse" /\ GroupForm /\ NeverClosedGroup) =>
          /\ ParseFailed
          /\ result.raised.error = "Unclosed "
          /\ result.raised.detail = <<CHAR_OPEN_PARENTHESES>>
    /\ (result.call = "Parse" /\ GroupForm) =>
          \A i \in Openings : ~AbsentAndAdvanced(i)

\* what the code does for a group that is never closed
C18_UnclosedGroupFails ==
    (result.call = "Parse" /\ GroupForm /\ NeverClosedGroup) =>
        /\ ParseFailed
        /\ result.raised.error = "Unclosed "
        /\ result.raised.detail = <<CHAR_OPEN_PARENTHESES>>

\* Parse of `()` returned an empty Compound: the group gave no node and the
\* cursor stood behind it
C18_EmptyGroupReturned ==
    /\ ParseReturned
    /\ arg = <<CHAR_OPEN_PARENTHESES, CHAR_CLOSE_PARENTHESES>>
    /\ result.node = Compound(<<>>)
    /\ AbsentAndAdvanced(0)
    /\ gobbleGroup(Drawn, 0).i = 2

\* the end of the name that starts at offset i: the first offset behind it
\* that holds no letter, digit, `$`, `_` or non-ASCII character
RECURSIVE NameEnd(_)
NameEnd(i) ==
    IF i < Len(arg) /\ isIdentifierPart(arg[i + 1]) THEN NameEnd(i + 1) ELSE i

\* the offsets a name can start at
NameStarts == {i \in 0..(Len(arg) - 1) : isIdentifierStart(arg[i + 1])}

NameAt(i) == Slice(arg, i, NameEnd(i + 1))

IsLiteralName(name) == name \in DOMAIN config.Operators.Literals

\* what the scan of a name has to give
NameScan(i) ==
    IF IsLiteralName(NameAt(i))
    THEN Return(NameEnd(i + 1),
                Literal(config.Operators.Literals[NameAt(i)], NameAt(i)))
    ELSE IF config.Features.Identifiers
    THEN Return(NameEnd(i + 1), Identifier(NameAt(i)))
    ELSE Raise(NameEnd(i + 1),
               ParsingError("Unknown literal ", NameAt(i), arg,
                            NameEnd(i + 1)))

\* the text is one name and no unary operator
OneName ==
    /\ arg # <<>>
    /\ 0 \in NameStarts
    /\ NameEnd(1) = Len(arg)
    /\ arg \notin Range(config.Operators.Unary)

(***************************************************************************)
(* C19  Literal names shadow identifiers: a name scanned at any offset of  *)
(* the text that is a key of the table of literal names yields a Literal   *)
(* node (value from the table, raw = the name) and never an Identifier,    *)
(* whether Identifiers is on or off; a name that is no key yields an       *)
(* Identifier when Identifiers is on and an "Unknown literal" error when   *)
(* it is off.  Parse of a text that is one name gives that node or that    *)
(* error.                                                                  *)
(***************************************************************************)
C19_LiteralNamesShadowIdentifiers ==
    /\ \A i \in NameStarts : gobbleIdentifier(Drawn, i) = NameScan(i)
    /\ (result.call = "Parse" /\ OneName) =>
          /\ result.node = NameScan(0).node
          /\ result.raised = NameScan(0).exc

\* with Identifiers off, `true` was returned as a Literal
C19_Witness ==
    /\ ParseReturned
    /\ ~config.Features.Identifiers
    /\ arg = <<"t", "r", "u", "e">>
    /\ result.node = Literal(PyTrue, arg)

\* with Identifiers off, a name that is no literal made Parse fail
C19_WitnessUnknown ==
    /\ ParseFailed
    /\ ~config.Features.Identifiers
    /\ arg = <<"t", "r", "u">>
    /\ result.raised.error = "Unknown literal "
    /\ result.raised.index = 3

\* the ParsingError the call gave: raised by Parse, returned by TryParse
Failure == IF result.call = "TryParse" THEN result.error ELSE result.raised
Failed == result.call # "none" /\ Failure.kind = "ParsingError"

\* the first place of a rendering that holds the element
Place(r, element) ==
    CHOOSE k \in 1..Len(r) :
        r[k] = element /\ \A j \in 1..(k - 1) : r[j] # element

\* the text a JSON string stands for, without its quotes
RECURSIVE JsonUnescape(_)
JsonUnescape(q) ==
    IF q = <<>> THEN <<>>
    ELSE IF q[1] # CHAR_BACKSLASH THEN <<q[1]>> \o JsonUnescape(Tail(q))
    ELSE IF q[2] = "u"
    THEN << IF SubSeq(q, 3, 6) = <<"0", "0", "e", "9">> THEN "<U+00E9>"
            ELSE CHAR_VT >> \o JsonUnescape(SubSeq(q, 7, Len(q)))
    ELSE << CASE q[2] = "n" -> CHAR_LF
              [] q[2] = "r" -> CHAR_CR
              [] q[2] = "t" -> CHAR_TAB
              [] q[2] = "b" -> CHAR_BS
              [] q[2] = "f" -> CHAR_FF
              [] OTHER -> q[2] >> \o JsonUnescape(SubSeq(q, 3, Len(q)))

\* the text between the quotes of a quoted text
Unquoted(q) == JsonUnescape(SubSeq(q, 2, Len(q) - 1))

\* the three parts of a rendering `Index <offset> of <quoted input>: <message>`
OffsetPart(r) == SubSeq(r, 2, Place(r, " of ") - 1)
InputPart(r) == SubSeq(r, Place(r, " of ") + 1, Place(r, ": ") - 1)
MessagePart(r) == SubSeq(r, Place(r, ": ") + 1, Len(r))

(***************************************************************************)
(* C20  Every ParsingError a parse produces carries the message, the       *)
(* input that was passed to Parse (not the text of the cursor, which is    *)
(* cleared on return) and the offset the cursor had when the error was     *)
(* detected, and renders as `Index <offset> of <quoted input>: <message>`: *)
(* the decimal offset, the input as a JSON string and the message.         *)
(***************************************************************************)
C20_ParsingErrorCarriesInputAndOffset ==
    Failed =>
        /\ Failure.expr = result.input
        /\ result.input = arg
        /\ expr = <<>>
        /\ Failure.index = ParseBody(config, unaryOperatorLength,
                                     binaryOperatorLength, arg).i
        /\ Failure.index \in 0..(Len(arg) + 1)
        /\ Rendered(Failure)[1] = "Index "
        /\ DigitsToNat(OffsetPart(Rendered(Failure))) = Failure.index
        /\ InputPart(Rendered(Failure))[1] = CHAR_DOUBLE_QUOTE
        /\ Unquoted(InputPart(Rendered(Failure))) = arg
        /\ MessagePart(Rendered(Failure)) = Message(Failure)
        /\ MessagePart(Rendered(Failure))[1] = Failure.error

\* TryParse returned a ParsingError for a text that holds a double quote,
\* detected behind its first character, and the cursor was cleared
C20_Witness ==
    /\ result.call = "TryParse"
    /\ Failed
    /\ arg = <<CHAR_DOUBLE_QUOTE, "a", CHAR_SINGLE_QUOTE>>
    /\ Failure.index = 3
    /\ Failure.expr = arg
    /\ expr = <<>>
    /\ Rendered(Failure) =
          <<"Index ", "3", " of ", CHAR_DOUBLE_QUOTE, CHAR_BACKSLASH,
            CHAR_DOUBLE_QUOTE, "a", CHAR_SINGLE_QUOTE, CHAR_DOUBLE_QUOTE,
            ": ", "Unclosed quote after ", CHAR_DOUBLE_QUOTE, "a",
            CHAR_SINGLE_QUOTE, CHAR_DOUBLE_QUOTE>>

(***************************************************************************)
(* Parse as a function of its argument under configurations in which one   *)
(* production is switched off                                              *)
(***************************************************************************)
MaxFlagLen == 3

FlagProfiles ==
    << [Features |-> [Compound |-> FALSE]],
       [Features |-> [Conditional |-> FALSE]],
       [Features |-> [Identifiers |-> FALSE]],
       [Features |-> [Calls |-> FALSE]],
       [Features |-> [Members |-> [Static |-> FALSE]]],
       [Features |-> [Members |-> [Computed |-> FALSE]]],
       [Features |-> [Literals |-> [Numeric |-> FALSE]]],
       [Features |-> [Literals |-> [String |-> FALSE]]],
       [Features |-> [Literals |-> [Array |-> FALSE]]],
       [Features |-> [Members |-> [Static |-> FALSE],
                      Literals |-> [Numeric |-> FALSE]]],
       [Features |-> [Members |-> [Computed |-> FALSE],
                      Literals |-> [Array |-> FALSE]]] >>

FlagAlphabet ==
    {"a", "1", CHAR_PERIOD, CHAR_OPEN_BRACKET, CHAR_CLOSE_BRACKET,
     CHAR_OPEN_PARENTHESES, CHAR_CLOSE_PARENTHESES, CHAR_QUESTIONMARK,
     CHAR_COLON, CHAR_SEMICOLON, CHAR_SINGLE_QUOTE}

FlagTexts ==
    Strings(FlagAlphabet, MaxFlagLen)
    \cup { <<"a", CHAR_OPEN_BRACKET, "1", CHAR_CLOSE_BRACKET>>,
           <<"a", CHAR_PERIOD, "b">>,
           <<"a", CHAR_SPACE, CHAR_PERIOD, "1">>,
           <<"f", CHAR_OPEN_PARENTHESES, "1", CHAR_CLOSE_PARENTHESES>>,
           <<"a", CHAR_QUESTIONMARK, "1", CHAR_COLON, "a">>,
           <<"a", CHAR_OPEN_BRACKET, "1", CHAR_SEMICOLON, "1",
             CHAR_CLOSE_BRACKET>>,
           <<CHAR_OPEN_BRACKET, "1", CHAR_COMMA, "a", CHAR_CLOSE_BRACKET>>,
           <<"t", "r", "u", "e", CHAR_PERIOD, "t", "r", "u", "e">>,
           <<"a", CHAR_PERIOD, "a", CHAR_OPEN_PARENTHESES,
             CHAR_SINGLE_QUOTE, "a", CHAR_SINGLE_QUOTE,
             CHAR_CLOSE_PARENTHESES>> }

FlagProfile(k) ==
    SetConfig(Constructed.config, Constructed.unaryOperatorLength,
              Constructed.binaryOperatorLength, FlagProfiles[k])

InitFlags ==
    /\ \E k \in 1..Len(FlagProfiles) :
          /\ config = FlagProfile(k).config
          /\ unaryOperatorLength = FlagProfile(k).unaryOperatorLength
          /\ binaryOperatorLength = FlagProfile(k).binaryOperatorLength
    /\ index = 0
    /\ length = 0
    /\ expr = <<>>
    /\ result = NoResult
    /\ returned = NothingHeld
    /\ arg \in FlagTexts
    /\ nconfig = 0
    /\ calls = NoCalls

SpecFlags == InitFlags /\ [][NextParse]_vars

\* the character that follows, after spaces, the name the text starts with
AfterName == char(Drawn, gobbleSpaces(Drawn, NameEnd(1)))

\* the text is a name directly followed by the trigger character of a member
\* access that is switched off
DisabledTrigger ==
    /\ arg # <<>>
    /\ isIdentifierStart(arg[1])
    /\ config.Features.Identifiers
    /\ \/ AfterName = CHAR_PERIOD /\ ~config.Features.Members.Static
       \/ AfterName = CHAR_OPEN_BRACKET /\ ~config.Features.Members.Computed

(***************************************************************************)
(* C21  With Members.Static or Members.Computed switched off, the trigger  *)
(* character of the construct switched off (`.` or `[`) directly after a   *)
(* variable is a fatal error: Parse of `a[1]` with Computed off and of     *)
(* `a.b` with Static off, as of every name followed by such a trigger,     *)
(* never returns a tree.                                                   *)
(***************************************************************************)
C21_DisabledMemberTriggerIsFatal ==
    (result.call = "Parse" /\ DisabledTrigger) => ParseFailed

\* what the code does: the variable ends in front of the trigger, without an
\* error
C21_DisabledTriggerEndsVariable ==
    DisabledTrigger =>
        gobbleVariable(Drawn, 0)
            = Return(gobbleSpaces(Drawn, NameEnd(1)), NameScan(0).node)

\* with Computed off, `a[1]` was returned as the name and an array
C21_TriggerReturned ==
    /\ ParseReturned
    /\ ~config.Features.Members.Computed
    /\ arg = <<"a", CHAR_OPEN_BRACKET, "1", CHAR_CLOSE_BRACKET>>
    /\ result.node = Compound(<<Identifier(<<"a">>), Ary(<<Digit("1")>>)>>)

(***************************************************************************)
(* Parse step by step, for callers that share one instance: the cursor     *)
(* fields belong to the instance, the list of nodes to the caller's frame  *)
(***************************************************************************)
MaxCalls == 1

CallTexts ==
    { <<"1", CHAR_SEMICOLON, "2">>,
      <<"a">>,
      <<"1", CHAR_SPACE, CHAR_CLOSE_PARENTHESES>>,
      <<CHAR_OPEN_PARENTHESES, "a", CHAR_CLOSE_PARENTHESES>> }

\* the instance as a production sees it when it runs
Shared == Self(config, unaryOperatorLength, binaryOperatorLength, expr, length)

\* a call counted as inside Parse only while its loop runs
InParseScanning(call) == call.pc = "loop"

\* a call between the entry of Parse and the end of its finally block
InParse(call) == call.pc \in {"loop", "after", "finally"}

\* an iteration of the loop of __gobbleCompound that leaves the cursor on a
\* separator
CompoundIterationStuck(self, i, nodes, node) ==
    LET ch == char(self, i)
    IN IF ~(i < self.length)
       THEN [i |-> i, nodes |-> nodes, exc |-> NoException, more |-> FALSE]
       ELSE IF ch = CHAR_SEMICOLON \/ ch = CHAR_COMMA
       THEN [i |-> i, nodes |-> nodes, exc |-> NoException, more |-> TRUE]
       ELSE IF Raised(node)
       THEN [i |-> node.i, nodes |-> nodes, exc |-> node.exc, more |-> FALSE]
       ELSE IF node.node = None
       THEN [i |-> node.i, nodes |-> nodes, exc |-> NoException,
             more |-> FALSE]
       ELSE [i |-> node.i, nodes |-> Append(nodes, node.node),
             exc |-> NoException, more |-> TRUE]

\* one iteration of the scanning loop of __gobbleCompound, node being what
\* __gobbleExpression gives at the cursor
CompoundIteration(self, i, nodes, node) ==
    LET ch == char(self, i)
    IN IF ~(i < self.length)
       THEN [i |-> i, nodes |-> nodes, exc |-> NoException, more |-> FALSE]
       ELSE IF ch = CHAR_SEMICOLON \/ ch = CHAR_COMMA
       THEN [i |-> i + 1, nodes |-> nodes, exc |-> NoException, more |-> TRUE]
       ELSE IF Raised(node)
       THEN [i |-> node.i, nodes |-> nodes, exc |-> node.exc, more |-> FALSE]
       ELSE IF node.node = None
       THEN [i |-> node.i, nodes |-> nodes, exc |-> NoException,
             more |-> FALSE]
       ELSE [i |-> node.i, nodes |-> Append(nodes, node.node),
             exc |-> NoException, more |-> TRUE]

\* the entry of Parse: the cursor is set to the start of the argument
EnterParse(t, text) ==
    LET cursor == ParseEntry(Cursor, text)
    IN /\ calls[t].pc \in {"idle", "returned"}
       /\ calls[t].count < MaxCalls
       /\ index' = cursor.index
       /\ expr' = cursor.expr
       /\ length' = cursor.length
       /\ calls' = [u \in Threads |->
                      IF u = t
                      THEN [pc |-> "loop", text |-> text, nodes |-> <<>>,
                            outcome |-> NoResult,
                            overlapped |->
                                \E v \in Threads \ {t} : InParse(calls[v]),
                            count |-> calls[t].count + 1]
                      ELSE IF InParse(calls[u])
                      THEN [calls[u] EXCEPT !.overlapped = TRUE]
                      ELSE calls[u]]
       /\ UNCHANGED <<config, unaryOperatorLength, binaryOperatorLength,
                      result, returned, arg, nconfig>>

\* one iteration of the loop of __gobbleCompound, on the instance's cursor
Scan(t, node) ==
    LET it == CompoundIteration(Shared, index, calls[t].nodes, node)
    IN /\ calls[t].pc = "loop"
       /\ index' = it.i
       /\ calls' = [calls EXCEPT
             ![t].nodes = it.nodes,
             ![t].pc = IF it.exc.kind # "none" THEN "finally"
                       ELSE IF it.more THEN "loop" ELSE "after",
             ![t].outcome =
                 IF it.exc.kind # "none"
                 THEN Called("Parse", calls[t].text,
                             ParseOutcome(Raise(it.i, it.exc)))
                 ELSE @]
       /\ UNCHANGED <<config, unaryOperatorLength, binaryOperatorLength,
                      length, expr, result, returned, arg, nconfig>>

ScanCompound(t) == Scan(t, gobble("gobbleExpression", Shared, index, <<>>))

\* the end of __gobbleCompound: what is returned for the nodes found
EndCompound(t) ==
    LET body == CompoundResult(Shared, index, calls[t].nodes)
    IN /\ calls[t].pc = "after"
       /\ calls' = [calls EXCEPT
             ![t].pc = "finally",
             ![t].outcome = Called("Parse", calls[t].text,
                                   ParseOutcome(body))]
       /\ UNCHANGED <<config, unaryOperatorLength, binaryOperatorLength,
                      index, length, expr, result, returned, arg, nconfig>>

\* the finally block of Parse, then the return to the caller
LeaveParse(t) ==
    LET cursor == ParseFinally(Cursor)
    IN /\ calls[t].pc = "finally"
       /\ index' = cursor.index
       /\ expr' = cursor.expr
       /\ length' = cursor.length
       /\ calls' = [calls EXCEPT ![t].pc = "returned"]
       /\ UNCHANGED <<config, unaryOperatorLength, binaryOperatorLength,
                      result, returned, arg, nconfig>>

NextCalls ==
    \/ \E t \in Threads : \E text \in CallTexts : EnterParse(t, text)
    \/ \E t \in Threads : ScanCompound(t)
    \/ \E t \in Threads : EndCompound(t)
    \/ \E t \in Threads : LeaveParse(t)

SpecCalls == Init /\ [][NextCalls]_vars

\* what Parse gives for a text when no other call touches the instance
RunAlone(text) ==
    Called("Parse", text,
           ParseOutcome(ParseBody(config, unaryOperatorLength,
                                  binaryOperatorLength, text)))

\* a call that has returned to its caller
Returned(t) == calls[t].pc = "returned"

C22_Sequential ==
    \A t \in Threads : Returned(t) /\ ~calls[t].overlapped

C22_OtherError ==
    \E t \in Threads :
        /\ Returned(t)
        /\ calls[t].overlapped
        /\ calls[t].outcome.raised.kind = "ParsingError"
        /\ calls[t].outcome.raised # RunAlone(calls[t].text).raised

(***************************************************************************)
(* One Parse call step by step: the text and the configuration are drawn   *)
(* at the start, and a call that was entered takes its next step           *)
(***************************************************************************)
MaxStepLen == 3

StepTexts ==
    Strings({"1", CHAR_SEMICOLON, CHAR_SPACE, CHAR_OPEN_PARENTHESES},
            MaxStepLen)
    \cup { <<"1", "_", "1", CHAR_SEMICOLON, "1">>,
           <<"1", ">", ">", ">", "1", CHAR_COMMA, "a">>,
           <<"-", "-", "1", CHAR_SPACE, "a">>,
           <<"a", CHAR_QUESTIONMARK, "1", CHAR_COLON, "a", CHAR_SEMICOLON,
             "a">>,
           <<"f", CHAR_OPEN_PARENTHESES, "1", CHAR_COMMA, "a",
             CHAR_CLOSE_PARENTHESES, CHAR_SPACE, "1">>,
           <<CHAR_SINGLE_QUOTE, "a", CHAR_SEMICOLON, CHAR_SINGLE_QUOTE,
             CHAR_SPACE, "1">>,
           <<"1", CHAR_SEMICOLON, CHAR_SINGLE_QUOTE, "a", "\\">>,
           <<"a", CHAR_PERIOD, "b", CHAR_OPEN_BRACKET, "1",
             CHAR_CLOSE_BRACKET, CHAR_COMMA, CHAR_COMMA>> }

InitSteps ==
    /\ \E k \in 1..Len(SyntaxProfiles) :
          /\ config = SyntaxProfile(k).config
          /\ unaryOperatorLength = SyntaxProfile(k).unaryOperatorLength
          /\ binaryOperatorLength = SyntaxProfile(k).binaryOperatorLength
    /\ index = 0
    /\ length = 0
    /\ expr = <<>>
    /\ result = NoResult
    /\ returned = NothingHeld
    /\ arg \in StepTexts
    /\ nconfig = 0
    /\ calls = NoCalls

\* the instance as the productions of one call see it
StepSelves ==
    { Self(SyntaxProfile(k).config, SyntaxProfile(k).unaryOperatorLength,
           SyntaxProfile(k).binaryOperatorLength, text, Len(text)) :
        k \in 1..Len(SyntaxProfiles), text \in StepTexts }

\* __gobbleExpression as a function of the instance and of the cursor
ExpressionAt ==
    [self \in StepSelves |->
        [i \in 0..self.length |-> gobble("gobbleExpression", self, i, <<>>)]]

Caller == "A"

ScanExpression == Scan(Caller, ExpressionAt[Shared][index])

StepParse ==
    \/ ScanExpression
    \/ EndCompound(Caller)
    \/ LeaveParse(Caller)

NextSteps ==
    \/ EnterParse(Caller, arg)
    \/ ScanExpression
    \/ EndCompound(Caller)
    \/ LeaveParse(Caller)

\* a call that was entered is not suspended for ever
SpecSteps == InitSteps /\ [][NextSteps]_vars /\ WF_vars(StepParse)

\* an expression scanned from offset i ends at or after i, and after i when it
\* yields a node
Advances(i) ==
    LET r == gobble("gobbleExpression", Drawn, i, <<>>)
    IN /\ r.i >= i
       /\ (~Raised(r) /\ r.node # None) => r.i > i
       /\ ExpressionAt[Drawn][i] = r

\* an iteration of the loop of __gobbleCompound that stays in the loop has
\* moved the cursor forward
IterationAdvances ==
    (calls[Caller].pc = "loop" /\ calls'[Caller].pc = "loop")
        => index' > index

(***************************************************************************)
(* C23  Every Parse call terminates, with a tree or an error, for every    *)
(* finite input and every configuration: a call that entered the loop of   *)
(* __gobbleCompound returns to its caller; every iteration that stays in   *)
(* that loop moves the cursor forward; and every expression scanned, from  *)
(* any offset of the input, ends at or after the offset it started from,   *)
(* and after it when it yields a node.                                     *)
(***************************************************************************)
C23_ParseTerminates ==
    /\ (calls[Caller].pc = "loop") ~> Returned(Caller)
    /\ [][IterationAdvances]_vars
    /\ [](\A i \in 0..Len(arg) : Advances(i))

\* a call that went through the loop for two nodes has returned
C23_Witness ==
    /\ Returned(Caller)
    /\ Len(calls[Caller].nodes) >= 2
    /\ calls[Caller].outcome.call = "Parse"
    /\ index = 0

(***************************************************************************)
(* Parse under binary tables that register an operator with precedence 0   *)
(***************************************************************************)
ZeroOperator == <<"=">>

\* tables none of whose spellings overlaps `=`
BaseTables ==
    << (<<">">> :> 7) @@ (<<"-">> :> 6),
       (<<">">> :> 7) @@ (<<">", ">", ">">> :> 8) >>

WithOperator(T, op, precedence) == (op :> precedence) @@ T

ZeroProfile(k) ==
    SetConfig(Constructed.config, Constructed.unaryOperatorLength,
              Constructed.binaryOperatorLength,
              [Operators |->
                  [Binary |-> WithOperator(BaseTables[k], ZeroOperator, 0)]])

BaseProfile(k) ==
    SetConfig(Constructed.config, Constructed.unaryOperatorLength,
              Constructed.binaryOperatorLength,
              [Operators |-> [Binary |-> BaseTables[k]]])

InitZero ==
    /\ \E k \in 1..Len(BaseTables) :
          /\ config = ZeroProfile(k).config
          /\ unaryOperatorLength = ZeroProfile(k).unaryOperatorLength
          /\ binaryOperatorLength = ZeroProfile(k).binaryOperatorLength
    /\ index = 0
    /\ length = 0
    /\ expr = <<>>
    /\ result = NoResult
    /\ returned = NothingHeld
    /\ arg \in OperatorTexts
    /\ nconfig = 0
    /\ calls = NoCalls

SpecZero == InitZero /\ [][NextParse]_vars

\* what Parse gives for the drawn text under the table without the operator
\* of precedence 0
UnderBase ==
    LET k == CHOOSE j \in 1..Len(BaseTables) : config = ZeroProfile(j).config
    IN ParseOutcome(ParseBody(BaseProfile(k).config,
                              BaseProfile(k).unaryOperatorLength,
                              BaseProfile(k).binaryOperatorLength, arg))

(***************************************************************************)
(* C24  A binary operator registered with precedence 0 behaves exactly     *)
(* like a spelling that is not an operator: for every input and every      *)
(* binary table T that op does not overlap, Parse under T with op:0 added  *)
(* gives the tree or the error that Parse under T gives.                   *)
(***************************************************************************)
C24_ZeroPrecedenceIsNoOperator ==
    result.call = "Parse" =>
        /\ result.node = UnderBase.node
        /\ result.raised = UnderBase.raised

\* what the code does: after an operand, the operator of precedence 0 is
\* consumed before the binary loop stops, so the loop ends behind it
C24_ZeroOperatorIsConsumed ==
    (Len(arg) >= 2 /\ arg[1] = "1" /\ <<arg[2]>> = ZeroOperator) =>
        /\ gobbleBinaryOp(Drawn, 1).found
        /\ binaryPrecedence(Drawn, gobbleBinaryOp(Drawn, 1).value) = 0
        /\ gobble("gobbleBinaryExpression", Drawn, 0, <<>>)
               = Return(2, Digit("1"))

\* `1=1` was returned as two expressions, where the table without `=` gives
\* the error Unexpected "=" at offset 1
C24_ZeroOperatorSwallowed ==
    /\ ParseReturned
    /\ arg = <<"1", "=", "1">>
    /\ result.node = Compound(<<Digit("1"), Digit("1")>>)
    /\ UnderBase.raised.kind = "ParsingError"
    /\ UnderBase.raised.index = 1

\* the member accesses with a name after a dot, in the tree returned
StaticMembers ==
    {n \in Nodes(result.node) : n.type = "MemberExpression" /\ ~n.computed}

(***************************************************************************)
(* C25  In every tree returned by Parse, every MemberExpression with       *)
(* computed = false has an Identifier node as its property, for every      *)
(* configuration of the table of literal names.                            *)
(***************************************************************************)
C25_StaticPropertyIsIdentifier ==
    ParseReturned => \A n \in StaticMembers : n.property.type = "Identifier"

\* what the code does: the property is what __gobbleIdentifier gives, which is
\* a Literal node for a name of the table of literal names
C25_StaticPropertyIsNameOrLiteral ==
    ParseReturned =>
        \A n \in StaticMembers :
            \/ n.property.type = "Identifier"
            \/ /\ n.property.type = "Literal"
               /\ n.property.raw \in DOMAIN config.Operators.Literals

\* `a.true` was returned with the literal true as its property
C25_LiteralProperty ==
    /\ ParseReturned
    /\ arg = <<"a", CHAR_PERIOD, "t", "r", "u", "e">>
    /\ result.node = Member(FALSE, Identifier(<<"a">>),
                            Literal(PyTrue, <<"t", "r", "u", "e">>))

\* the numeric literals of the tree returned
NumberNodes == {n \in Nodes(result.node) : IsNumberNode(n)}

Separator == config.Features.Literals.NumericSeparator

\* every separator of the text stands between two decimal digits
OnlyBetweenDigits(raw, c) ==
    \A k \in 1..Len(raw) :
        <<raw[k]>> = c =>
            /\ k > 1 /\ isDecimalDigit(raw[k - 1])
            /\ k < Len(raw) /\ isDecimalDigit(raw[k + 1])

(***************************************************************************)
(* C26  With a one-character NumericSeparator c configured, a numeric      *)
(* literal accepts c only between two decimal digits, and with no          *)
(* separator configured `_` is never consumed as part of a number.         *)
(***************************************************************************)
C26_SeparatorOnlyBetweenDigits ==
    ParseReturned =>
        \A n \in NumberNodes :
            IF Separator = <<>>
            THEN \A k \in 1..Len(n.raw) : n.raw[k] # "_"
            ELSE OnlyBetweenDigits(n.raw, Separator)

\* what the code does: wherever a decimal digit may stand, the separator is
\* skipped as well, so the digits of a literal are its source text with the
\* separators removed, wherever they stand
C26_SeparatorSkippedAnywhere ==
    \A i \in 0..Len(arg) :
        (Separator # <<>> /\ <<char(Drawn, i)>> = Separator)
            => gobbleDecimal(Drawn, i) = gobbleDecimal(Drawn, i + 1)

\* `1_` was returned as the number 1 with the raw text `1_`
C26_TrailingSeparator ==
    /\ ParseReturned
    /\ Separator = <<"_">>
    /\ arg = <<"1", "_">>
    /\ result.node = NumericLiteral(Digit("1").value, <<"1", "_">>)

\* `1__1` was returned as the number 11
C26_DoubledSeparator ==
    /\ ParseReturned
    /\ Separator = <<"_">>
    /\ arg = <<"1", "_", "_", "1">>
    /\ IsNumberNode(result.node)
    /\ result.node.raw = arg

Features == config.Features

\* a node of a production that is switched off
Disabled(n) ==
    \/ n.type = "Compound" /\ ~Features.Compound
    \/ n.type = "ConditionalExpression" /\ ~Features.Conditional
    \/ n.type = "Identifier" /\ ~Features.Identifiers
    \/ n.type = "CallExpression" /\ ~Features.Calls
    \/ n.type = "MemberExpression" /\ ~n.computed /\ ~Features.Members.Static
    \/ n.type = "MemberExpression" /\ n.computed /\ ~Features.Members.Computed
    \/ IsNumberNode(n) /\ ~Features.Literals.Numeric
    \/ /\ n.type = "Literal" /\ "kind" \in DOMAIN n /\ n.kind = "string"
       /\ ~Features.Literals.String
    \/ n.type = "ArrayExpression" /\ ~Features.Literals.Array

(***************************************************************************)
(* C27  Feature flags are sound: a tree returned by Parse contains no node *)
(* of a production that is switched off.                                   *)
(***************************************************************************)
C27_NoNodeOfDisabledProduction ==
    ParseReturned => \A n \in Nodes(result.node) : ~Disabled(n)

\* with calls switched off, `f(1)` was returned as a name and a group
C27_Witness ==
    /\ ParseReturned
    /\ ~Features.Calls
    /\ arg = <<"f", CHAR_OPEN_PARENTHESES, "1", CHAR_CLOSE_PARENTHESES>>
    /\ result.node = Compound(<<Identifier(<<"f">>), Digit("1")>>)

\* with names switched off, a tree of literal names only was returned
C27_WitnessNames ==
    /\ ParseReturned
    /\ ~Features.Identifiers
    /\ arg = <<"t", "r", "u", "e", CHAR_PERIOD, "t", "r", "u", "e">>
    /\ result.node.type = "MemberExpression"

(***************************************************************************)
(* The stacks of __gobbleBinaryExpression after each push of an operator   *)
(***************************************************************************)
RECURSIVE BinaryPushes(_, _, _, _)

\* the stacks as a pass of the loop leaves them, then those of the passes
\* that follow
PushesNext(self, i, exprs, ops) ==
    <<[exprs |-> exprs, ops |-> ops]>> \o BinaryPushes(self, i, exprs, ops)

PushesStep(self, exprs, ops, op, precedence) ==
    LET reduced == Reduce(exprs, ops, precedence)
        node == gobble("gobbleToken", self, op.i, <<>>)
    IN IF ~op.found THEN <<>>
       ELSE IF precedence = 0 THEN <<>>
       ELSE IF Raised(node) \/ node.node = None THEN <<>>
       ELSE PushesNext(self, node.i,
                       Append(reduced.exprs, node.node),
                       Append(reduced.ops,
                              [value |-> op.value, precedence |-> precedence]))

PushesOperator(self, exprs, ops, op) ==
    PushesStep(self, exprs, ops, op, binaryPrecedence(self, op.value))

\* the sequence of the stacks after each pass of the `while True` loop that
\* pushed an operator
BinaryPushes(self, i, exprs, ops) ==
    PushesOperator(self, exprs, ops, gobbleBinaryOp(self, i))

\* the pushes of the binary expression that starts at offset i of the text
PushesFrom(left) ==
    IF Raised(left) \/ left.node = None THEN <<>>
    ELSE BinaryPushes(Drawn, left.i, <<left.node>>, <<>>)

PushesAt(i) == PushesFrom(gobble("gobbleToken", Drawn, i, <<>>))

NeverDecreases(ops) ==
    \A j \in 1..(Len(ops) - 1) : ops[j].precedence <= ops[j + 1].precedence

\* the operators met from the root of a tree down its right children
RECURSIVE RightSpine(_, _)
RightSpine(node, depth) ==
    IF depth = 0 THEN <<>>
    ELSE <<node.operator>> \o RightSpine(node.right, depth - 1)

Folded(s) ==
    FoldStacks(s.exprs, s.ops, Len(s.exprs) - 1, Len(s.ops) - 1,
               s.exprs[Len(s.exprs)])

(***************************************************************************)
(* C28  Inside the loop of __gobbleBinaryExpression, after every push of   *)
(* an operator the precedences of the pending operators never decrease     *)
(* from the bottom of the stack to its top, and the stack of operands      *)
(* holds exactly one more entry than the stack of operators; the fold of   *)
(* such stacks puts the operators, bottom first, from the root down the    *)
(* right children, so no operator stands below one of higher precedence.   *)
(***************************************************************************)
C28_PendingOperatorsNeverDecrease ==
    \A i \in 0..Len(arg) :
        \A s \in Range(PushesAt(i)) :
            /\ NeverDecreases(s.ops)
            /\ Len(s.exprs) = Len(s.ops) + 1
            /\ RightSpine(Folded(s), Len(s.ops))
                   = [j \in 1..Len(s.ops) |-> s.ops[j].value]

\* `2+3*4` was parsed: both operators were pending after the second push
C28_Witness ==
    /\ ParseReturned
    /\ arg = <<"2", "+", "3", "*", "4">>
    /\ Len(PushesAt(0)) = 2
    /\ Len(PushesAt(0)[2].ops) = 2

\* `2*3+4` was parsed: the second push was preceded by a reduction
C28_WitnessReduced ==
    /\ ParseReturned
    /\ arg = <<"2", "*", "3", "+", "4">>
    /\ Len(PushesAt(0)) = 2
    /\ Len(PushesAt(0)[2].ops) = 1

(***************************************************************************)
(* C29  The cursor stays inside the input: at the return from every        *)
(* expression scanned, from any offset of the input, and at every error    *)
(* raised, 0 <= offset <= length of the input, so the offset of every      *)
(* ParsingError lies in [0, len(input)], for every input, those that end   *)
(* in a backslash inside a string or in an open suffix included.           *)
(***************************************************************************)
C29_CursorStaysInsideInput ==
    /\ Failed => Failure.index \in 0..Len(arg)
    /\ \A i \in 0..Len(arg) :
          gobble("gobbleExpression", Drawn, i, <<>>).i \in 0..Len(arg)

\* what the code does: the cursor is at most one place past the input, and
\* past it only for the error of a string left open
C29_CursorAtMostOnePastInput ==
    /\ Failed => Failure.index \in 0..(Len(arg) + 1)
    /\ (Failed /\ Failure.index > Len(arg))
          => Failure.error = "Unclosed quote after "
    /\ \A i \in 0..Len(arg) :
          LET r == gobble("gobbleExpression", Drawn, i, <<>>)
          IN /\ r.i \in 0..(Len(arg) + 1)
             /\ r.i > Len(arg) => Raised(r)

\* TryParse of a string that ends in a backslash returned an error whose
\* offset is past the input
C29_OffsetPastInput ==
    /\ result.call = "TryParse"
    /\ arg = <<CHAR_SINGLE_QUOTE, "a", CHAR_BACKSLASH>>
    /\ Failure.kind = "ParsingError"
    /\ Failure.index = 4

\* the offsets, after spaces, at which a top-level expression was looked for
\* and none was found although characters remain
RECURSIVE TopLevelFailures(_)
TopLevelFailures(i) ==
    LET ch == char(Drawn, i)
        node == gobble("gobbleExpression", Drawn, i, <<>>)
        start == gobbleSpaces(Drawn, i)
    IN IF ~(i < Len(arg)) THEN {}
       ELSE IF ch = CHAR_SEMICOLON \/ ch = CHAR_COMMA
       THEN TopLevelFailures(i + 1)
       ELSE IF Raised(node) THEN {}
       ELSE IF node.node = None
       THEN IF start < Len(arg) THEN {start} ELSE {}
       ELSE TopLevelFailures(node.i)

(***************************************************************************)
(* C30  Parse returns a tree only when the whole input was consumed:       *)
(* whenever a top-level production fails to yield a node while characters  *)
(* remain, Parse fails with an "Unexpected <char>" error, so no returned   *)
(* tree stands for a proper prefix of the input.                           *)
(***************************************************************************)
C30_TreeOnlyForWholeInput ==
    (result.call = "Parse" /\ TopLevelFailures(0) # {}) =>
        /\ ParseFailed
        /\ result.raised.error = "Unexpected "

\* what the code does: a tree is returned exactly when the loop of
\* __gobbleCompound ends with the cursor at the end of the input, wherever the
\* productions that yielded no node have left it
C30_TreeWhenCursorAtEnd ==
    ParseReturned => CompoundLoop(Drawn, 0, <<>>).i = Len(arg)

\* `1 ()` was returned as the number 1: the parentheses stand for nothing
C30_PrefixReturned ==
    /\ ParseReturned
    /\ arg = <<"1", CHAR_SPACE, CHAR_OPEN_PARENTHESES, CHAR_CLOSE_PARENTHESES>>
    /\ TopLevelFailures(0) = {2}
    /\ result.node = Digit("1")

====
